---------------------------- MODULE Spec2Model ----------------------------
(***************************************************************************)
(* Zone Health Diagnostics Engine of niagara_copilot_edge.                 *)
(*                                                                         *)
(* The module models, from the Python sources under src/src:               *)
(*   - analytics/zone_pairs.py   the zone-pair index build                 *)
(*   - analytics/zone_health.py  alignment, metric computors, score and    *)
(*                               status classifier                         *)
(*   - analytics/flow.py         flow tracking                             *)
(*   - analytics/role_rules.py   rule matching and role inference          *)
(*                                                                         *)
(* Numbers that are floats in the source are exact rationals here          *)
(* (records [n, d] with d > 0); binary rounding is not modelled.           *)
(* Strings that the source scans with regular expressions are sequences    *)
(* of tokens (words, digit runs, single separator characters).             *)
(***************************************************************************)
EXTENDS Integers, Sequences, FiniteSets, TLC

VARIABLES
    catalog,    \* zone_pairs: the rows returned by sqlite_store.list_series
    pos,        \* zone_pairs: number of catalog rows the build loop has consumed
    index,      \* zone_pairs: the dict (station_key, zone_root) -> ZonePair
    m,          \* zone_health: the ZoneHealthMetrics record of the current call
    pc,         \* zone_health: position inside compute_zone_health
    frames,     \* the DataFrames handed to the metric computors, by name
    aligned,    \* the frame a computor's nearest-timestamp join produced (after dropna)
    raised,     \* TRUE once a call has raised an exception
    zone_info,  \* zone_health: role -> series id of the zone (None when unset)
    store,      \* zone_health: series id -> rows sqlite_store.query_series returns
    comfort_cfg, \* zone_health: the ComfortConfig of the call
    rule_source, \* role_rules: config/role_rules.json: missing, malformed, or its rule specs
    rules_cache, \* role_rules: what lru_cache holds for get_rules (NotLoaded before)
    point,       \* role_rules: the label and tags infer_role is called with
    inferred,    \* role_rules: the value infer_role returned
    canon_name,  \* mqtt_history_ingest: the argument of niagara_canonical_name
    canon_key,   \* mqtt_history_ingest: niagara_canonical_name(canon_name)
    canon_rekey, \* mqtt_history_ingest: niagara_canonical_name(canon_key)
    cyc_df,      \* rtu: the frame handed to _compute_binary_cycles
    walk,        \* rtu: the locals of _compute_binary_cycles' loop
    thread_pc,   \* role_rules: thread -> its position inside get_rules
    thread_rules, \* role_rules: thread -> the rule list get_rules returned to it
    load_count,  \* role_rules: number of executions of get_rules' body
    results,     \* server: the zone results in the order they were computed
    response,    \* server: the zones list summary_building_health returns
    request,     \* server: the query parameters of the summary request
    flow_cfg,    \* flow: the FlowTrackingConfig compute_flow_tracking is called with
    flow_metrics, \* flow: the dict compute_flow_tracking returned
    raw_label,   \* mqtt_history_ingest: the argument of niagara_decode_name
    decoded,     \* mqtt_history_ingest: niagara_decode_name(raw_label)
    redecoded,   \* mqtt_history_ingest: niagara_decode_name(decoded)
    _store,      \* history_store: (station key, history key) -> {timestamp -> sample}
    added,       \* history of add_batch: key -> {timestamp -> last sample handed in}
    mqtt_data,   \* mqtt_history_ingest: the parsed JSON payload of the MQTT message
    sqlite_rows  \* sqlite_store: the samples inserted into history_samples

vars == <<catalog, pos, index, m, pc, frames, aligned, raised, zone_info, store,
          comfort_cfg, rule_source, rules_cache, point, inferred,
          canon_name, canon_key, canon_rekey, cyc_df, walk,
          thread_pc, thread_rules, load_count, results, response, request,
          flow_cfg, flow_metrics, raw_label, decoded, redecoded,
          _store, added, mqtt_data, sqlite_rows>>

ruleVars == <<rule_source, rules_cache, point, inferred>>

indexVars == <<catalog, pos, index>>

healthInputs == <<zone_info, store, comfort_cfg>>

canonVars == <<canon_name, canon_key, canon_rekey>>

\* the variables of the operations that are not part of the zone-health call,
\* the index build or the role inference
cycleVars == <<cyc_df, walk>>

threadVars == <<thread_pc, thread_rules, load_count>>

batchVars == <<results, response, request>>

flowVars == <<flow_cfg, flow_metrics>>

decodeVars == <<raw_label, decoded, redecoded>>

\* the variables of the operations modelled last
storeVars == <<_store, added>>

ingestVars == <<mqtt_data, sqlite_rows>>

lateVars == <<flowVars, decodeVars, storeVars, ingestVars>>

moreVars == <<canonVars, cycleVars, threadVars, batchVars, lateVars>>

\* niagara_canonical_name has not been called
CanonIdle ==
    /\ canon_name = << >>
    /\ canon_key = << >>
    /\ canon_rekey = << >>

\* _compute_binary_cycles has not been called
CycleIdle ==
    /\ cyc_df = << >>
    /\ walk = << >>

\* no thread has called get_rules
ThreadIdle ==
    /\ thread_pc = << >>
    /\ thread_rules = << >>
    /\ load_count = 0

\* summary_building_health has not been called
BatchIdle ==
    /\ results = << >>
    /\ response = << >>
    /\ request = << >>

\* compute_flow_tracking has not been called
FlowIdle ==
    /\ flow_cfg = << >>
    /\ flow_metrics = << >>

\* none of those operations has been called
\* niagara_decode_name has not been called
DecodeIdle ==
    /\ raw_label = << >>
    /\ decoded = << >>
    /\ redecoded = << >>

\* history_store.clear(): no series
StoreIdle ==
    /\ _store = << >>
    /\ added = << >>

\* no MQTT message has arrived
IngestIdle ==
    /\ mqtt_data = << >>
    /\ sqlite_rows = << >>

LateIdle == FlowIdle /\ DecodeIdle /\ StoreIdle /\ IngestIdle

MoreIdle == CanonIdle /\ CycleIdle /\ ThreadIdle /\ BatchIdle /\ LateIdle

(***************************************************************************)
(* Bounds of the model                                                     *)
(***************************************************************************)
MaxCatalog == 3

\* longest primary / secondary series handed to a nearest-timestamp join
MaxAlign == 2

\* most rules in a config/role_rules.json
MaxRules == 3

(***************************************************************************)
(* Generic helpers                                                         *)
(***************************************************************************)
\* Python None (and, for `x or ""`, the empty string) of a string-valued field
None == <<>>

\* Python None of a role-valued result (role names are plain strings)
NoRole == "None"

Range(s) == {s[i] : i \in 1..Len(s)}

SeqsUpTo(S, n) == UNION {[1..k -> S] : k \in 0..n}

\* role_rules: no config/role_rules.json exists
NoRuleFile == [file |-> "missing", specs |-> << >>]

\* A float of the source, as an exact rational n/d with d > 0
R(n, d) == [n |-> n, d |-> d]

RInt(i) == R(i, 1)

\* Python None of an Optional[float] field
NoneNum == R(0, 0)

RLt(a, b) == a.n * b.d < b.n * a.d
RLe(a, b) == a.n * b.d <= b.n * a.d
REq(a, b) == a.n * b.d = b.n * a.d
RAdd(a, b) == R(a.n * b.d + b.n * a.d, a.d * b.d)
RSub(a, b) == R(a.n * b.d - b.n * a.d, a.d * b.d)
RMulInt(a, i) == R(a.n * i, a.d)
RDivInt(a, i) == R(a.n, a.d * i)
RMax(a, b) == IF RLt(a, b) THEN b ELSE a

(***************************************************************************)
(* Nearest-timestamp join: pandas.merge_asof(direction="nearest") as the   *)
(* metric computors of zone_health.py, flow.py and rtu.py call it.         *)
(* A frame is a sequence of rows [timestamp, value]; timestamps are        *)
(* seconds, values are integral floats.                                    *)
(***************************************************************************)
MERGE_TOLERANCE_SECONDS == 30

\* tolerance=pd.Timedelta(seconds=60) of _compute_discharge_metrics
DischargeToleranceSeconds == 60

\* NaN of a float column
NaN == -999999

\* df.sort_values("timestamp"): ascending by timestamp (insertion of each row
\* behind the rows that are not later than it)
RECURSIVE SortValues(_)
SortValues(df) ==
    IF df = << >> THEN << >>
    ELSE LET rest == SortValues(SubSeq(df, 1, Len(df) - 1))
             x    == df[Len(df)]
             k    == Cardinality({i \in 1..Len(rest) : rest[i].timestamp <= x.timestamp})
         IN SubSeq(rest, 1, k) \o <<x>> \o SubSeq(rest, k + 1, Len(rest))

\* The row of `right` merge_asof pairs with timestamp t: 0 when none lies within
\* tol.  Backward candidate: the last row not later than t; forward candidate:
\* the first row not earlier than t; each is dropped when farther than tol; of
\* two candidates the backward one wins unless the forward one is strictly
\* nearer.  Both frames are sorted.
AsofNoTolerance(right, t, tol) ==
    LET back == {j \in 1..Len(right) : right[j].timestamp <= t}
        fwd  == {j \in 1..Len(right) : right[j].timestamp >= t}
        bj   == IF back = {} THEN 0 ELSE CHOOSE j \in back : \A k \in back : k <= j
        fj   == IF fwd = {} THEN 0 ELSE CHOOSE j \in fwd : \A k \in fwd : j <= k
    IN IF bj # 0 /\ fj # 0
          THEN IF t - right[bj].timestamp <= right[fj].timestamp - t THEN bj ELSE fj
          ELSE IF bj # 0 THEN bj ELSE fj

AsofNearest(right, t, tol) ==
    LET back == {j \in 1..Len(right) : right[j].timestamp <= t}
        fwd  == {j \in 1..Len(right) : right[j].timestamp >= t}
        bj0  == IF back = {} THEN 0 ELSE CHOOSE j \in back : \A k \in back : k <= j
        fj0  == IF fwd = {} THEN 0 ELSE CHOOSE j \in fwd : \A k \in fwd : j <= k
        bj   == IF bj0 # 0 /\ t - right[bj0].timestamp > tol THEN 0 ELSE bj0
        fj   == IF fj0 # 0 /\ right[fj0].timestamp - t > tol THEN 0 ELSE fj0
    IN IF bj # 0 /\ fj # 0
          THEN IF t - right[bj].timestamp <= right[fj].timestamp - t THEN bj ELSE fj
          ELSE IF bj # 0 THEN bj ELSE fj

\* pd.merge_asof(left, right, on="timestamp", direction="nearest", tolerance=tol):
\* one row per row of left, carrying the columns of left (field l), the value of
\* the paired row of right (NaN when none) and, for the properties only, the
\* timestamp of the paired row (field ts_right; merge_asof does not return it).
MergeAsof(left, right, tol) ==
    [i \in 1..Len(left) |->
        LET j == AsofNearest(right, left[i].timestamp, tol)
        IN [timestamp |-> left[i].timestamp,
            l         |-> left[i],
            r         |-> IF j = 0 THEN NaN ELSE right[j].value,
            ts_right  |-> IF j = 0 THEN NaN ELSE right[j].timestamp]]

\* merge_asof raises MergeError on a frame whose timestamp column is not a
\* datetime column, which is the case of the empty frames of _query_series_df
\* (pd.DataFrame(columns=["timestamp", "value"]) has object columns)
MergeAsofRaises(left, right) == left = << >> \/ right = << >>

\* merged.dropna(subset=[...]) on the paired column
DropNa(merged) == SelectSeq(merged, LAMBDA row : row.r # NaN)

\* _compute_comfort_metrics, lines 109-124: the aligned (temp, setpoint) rows
ComfortMerged(df_temp, df_sp) ==
    IF df_temp = << >> \/ df_sp = << >> THEN << >>
    ELSE DropNa(MergeAsof(SortValues(df_temp), SortValues(df_sp),
                          MERGE_TOLERANCE_SECONDS))

\* the join reached without the test for empty frames
ComfortRaisesUnguarded(df_temp, df_sp) ==
    MergeAsofRaises(SortValues(df_temp), SortValues(df_sp))

\* _compute_comfort_metrics raises: its merge_asof is reached with an empty frame
ComfortRaises(df_temp, df_sp) ==
    IF df_temp = << >> \/ df_sp = << >> THEN FALSE
    ELSE MergeAsofRaises(SortValues(df_temp), SortValues(df_sp))

\* compute_flow_tracking, lines 42-89: the aligned (flow, setpoint) rows
FlowMerged(df_flow, df_flow_sp, tol) ==
    IF df_flow = << >> THEN << >>
    ELSE IF df_flow_sp = << >> THEN << >>
    ELSE DropNa(MergeAsof(SortValues(df_flow), SortValues(df_flow_sp), tol))

FlowRaises(df_flow, df_flow_sp) ==
    IF df_flow = << >> THEN FALSE
    ELSE IF df_flow_sp = << >> THEN FALSE
    ELSE MergeAsofRaises(SortValues(df_flow), SortValues(df_flow_sp))

\* _compute_flow_and_damper_metrics, lines 186-222: the (damper, flow, flow_sp)
\* rows.  Field l of a row is the (damper, flow) row, r the flow setpoint (NaN
\* when none was aligned or no setpoint series exists).
DamperMerged(df_damper, df_flow, df_flow_sp) ==
    IF df_damper = << >> \/ df_flow = << >> THEN << >>
    ELSE LET first == MergeAsof(SortValues(df_damper), SortValues(df_flow),
                                MERGE_TOLERANCE_SECONDS)
             second == IF df_flow_sp # << >>
                          THEN MergeAsof(SortValues(first), SortValues(df_flow_sp),
                                         MERGE_TOLERANCE_SECONDS)
                          ELSE [i \in 1..Len(first) |->
                                  [timestamp |-> first[i].timestamp, l |-> first[i],
                                   r |-> NaN, ts_right |-> NaN]]
         IN SelectSeq(second, LAMBDA row : row.l.r # NaN)

DamperRaises(df_damper, df_flow, df_flow_sp) ==
    IF df_damper = << >> \/ df_flow = << >> THEN FALSE
    ELSE \/ MergeAsofRaises(SortValues(df_damper), SortValues(df_flow))
         \/ /\ df_flow_sp # << >>
            /\ MergeAsofRaises(
                   SortValues(MergeAsof(SortValues(df_damper), SortValues(df_flow),
                                        MERGE_TOLERANCE_SECONDS)),
                   SortValues(df_flow_sp))

\* _compute_reheat_waste_metrics, lines 281-302: the (reheat, temp, sp) rows.
\* Field l of a row is the (reheat, temp) row, r the setpoint.
ReheatMerged(df_reheat, df_temp, df_sp) ==
    IF df_reheat = << >> \/ df_temp = << >> \/ df_sp = << >> THEN << >>
    ELSE LET first == MergeAsof(SortValues(df_reheat), SortValues(df_temp),
                                MERGE_TOLERANCE_SECONDS)
             second == MergeAsof(SortValues(first), SortValues(df_sp),
                                 MERGE_TOLERANCE_SECONDS)
         IN SelectSeq(second, LAMBDA row : row.l.r # NaN /\ row.r # NaN)

ReheatRaises(df_reheat, df_temp, df_sp) ==
    IF df_reheat = << >> \/ df_temp = << >> \/ df_sp = << >> THEN FALSE
    ELSE \/ MergeAsofRaises(SortValues(df_reheat), SortValues(df_temp))
         \/ MergeAsofRaises(
                SortValues(MergeAsof(SortValues(df_reheat), SortValues(df_temp),
                                     MERGE_TOLERANCE_SECONDS)),
                SortValues(df_sp))

\* rtu.py _compute_discharge_metrics, lines 127-151: the aligned (da, da_sp) rows
DischargeMerged(df_da, df_da_sp) ==
    IF df_da = << >> \/ df_da_sp = << >> THEN << >>
    ELSE DropNa(MergeAsof(SortValues(df_da), SortValues(df_da_sp),
                          DischargeToleranceSeconds))

DischargeRaises(df_da, df_da_sp) ==
    IF df_da = << >> \/ df_da_sp = << >> THEN FALSE
    ELSE MergeAsofRaises(SortValues(df_da), SortValues(df_da_sp))

(***************************************************************************)
(* analytics/zone_health.py and analytics/flow.py : metric computors       *)
(***************************************************************************)
Abs(x) == IF x < 0 THEN -x ELSE x

RECURSIVE SumOf(_, _)
SumOf(F(_), rows) ==
    IF rows = << >> THEN 0 ELSE F(rows[1]) + SumOf(F, Tail(rows))

Count(P(_), rows) == Len(SelectSeq(rows, P))

\* count / total * 100.0
Pct(count, total) == R(count * 100, total)

\* a timestamp the store holds that pd.to_datetime(errors="coerce") turns into NaT
BadTs == -1

\* _query_series_df(station, history_id, start, end) on the rows of the store
_query_series_df(history_id, rows) ==
    IF history_id = None THEN << >>
    ELSE IF rows = << >> THEN << >>
    ELSE SortValues(
            SelectSeq([i \in 1..Len(rows) |->
                          [timestamp |-> rows[i].ts, value |-> rows[i].value]],
                      LAMBDA row : row.timestamp # BadTs))

\* merged["timestamp"].dt.time, in seconds since midnight
TimeOfDay(ts) == ts % 86400

\* _parse_time("HH:MM"), in seconds since midnight
_parse_time(hm) == hm[1] * 3600 + hm[2] * 60

\* the rows of merged whose time of day lies in [occupied_start, occupied_end]
Occupied(merged, cfg) ==
    SelectSeq(merged, LAMBDA row :
        /\ TimeOfDay(row.timestamp) >= _parse_time(cfg.occupied_start)
        /\ TimeOfDay(row.timestamp) <= _parse_time(cfg.occupied_end))

\* the comfort metrics with the band's boundary left out (abs_error < band)
ComfortStrictBand(df_temp, df_sp, cfg) ==
    LET merged   == ComfortMerged(df_temp, df_sp)
        occupied == Occupied(merged, cfg)
        Error(row) == row.l.value - row.r
        samples  == Len(occupied)
        within_band == Count(LAMBDA row : Abs(Error(row)) < cfg.comfort_band_degF,
                             occupied)
    IN IF df_temp = << >> \/ df_sp = << >> THEN <<0, NoneNum, NoneNum>>
       ELSE IF merged = << >> THEN <<0, NoneNum, NoneNum>>
       ELSE IF occupied = << >> THEN <<0, NoneNum, NoneNum>>
       ELSE <<samples, Pct(within_band, samples), R(SumOf(Error, occupied), samples)>>

\* _compute_comfort_metrics: (samples, within_band_pct, mean_error_degF)
_compute_comfort_metrics(df_temp, df_sp, cfg) ==
    LET merged   == ComfortMerged(df_temp, df_sp)
        occupied == Occupied(merged, cfg)
        Error(row) == row.l.value - row.r
        samples  == Len(occupied)
        within_band == Count(LAMBDA row : Abs(Error(row)) <= cfg.comfort_band_degF,
                             occupied)
    IN IF df_temp = << >> \/ df_sp = << >> THEN <<0, NoneNum, NoneNum>>
       ELSE IF merged = << >> THEN <<0, NoneNum, NoneNum>>
       ELSE IF occupied = << >> THEN <<0, NoneNum, NoneNum>>
       ELSE <<samples, Pct(within_band, samples), R(SumOf(Error, occupied), samples)>>

\* FlowTrackingConfig() as _compute_flow_and_damper_metrics sets it up:
\* pct_tolerance 0.1 as the fraction 1/10, abs_cfm_tolerance None (NaN here),
\* merge_tolerance_seconds = MERGE_TOLERANCE_SECONDS
FlowTrackingConfig ==
    [pct_tolerance |-> R(1, 10), abs_cfm_tolerance |-> NaN,
     merge_tolerance_seconds |-> MERGE_TOLERANCE_SECONDS]

\* flow tracking with the absolute tolerance used alone when it is configured
FlowTrackingAbsOnly(df_flow, df_flow_sp, cfg) ==
    LET merged == FlowMerged(df_flow, df_flow_sp, cfg.merge_tolerance_seconds)
        ErrorCfm(row) == row.l.value - row.r
        PctTol(row) == R(Abs(row.r) * cfg.pct_tolerance.n, cfg.pct_tolerance.d)
        TolCfm(row) == IF cfg.abs_cfm_tolerance # NaN
                          THEN RInt(cfg.abs_cfm_tolerance)
                          ELSE PctTol(row)
        WithinBand(row) == RLe(RInt(Abs(ErrorCfm(row))), TolCfm(row))
        samples == Len(merged)
        valid == SelectSeq(merged, LAMBDA row : row.r # 0)
        \* sum of |error_cfm / flow_sp| over the rows with a non-zero setpoint,
        \* on the common denominator prod |flow_sp|
        AbsPct(row) == R(Abs(ErrorCfm(row)), Abs(row.r))
    IN IF df_flow = << >>
          THEN [samples |-> 0, within_band_pct |-> NoneNum,
                mean_error_cfm |-> NoneNum, mean_error_pct |-> NoneNum]
       ELSE IF df_flow_sp = << >>
          THEN [samples |-> Len(df_flow), within_band_pct |-> NoneNum,
                mean_error_cfm |-> NoneNum, mean_error_pct |-> NoneNum]
       ELSE IF merged = << >>
          THEN [samples |-> 0, within_band_pct |-> NoneNum,
                mean_error_cfm |-> NoneNum, mean_error_pct |-> NoneNum]
       ELSE [samples |-> samples,
             within_band_pct |-> Pct(Count(WithinBand, merged), samples),
             mean_error_cfm |-> R(SumOf(ErrorCfm, merged), samples),
             mean_error_pct |->
                IF valid = << >> THEN NoneNum
                ELSE LET RECURSIVE SumR(_)
                         SumR(rows) == IF rows = << >> THEN RInt(0)
                                       ELSE RAdd(AbsPct(rows[1]), SumR(Tail(rows)))
                     IN RMulInt(RDivInt(SumR(valid), Len(valid)), 100)]

\* compute_flow_tracking(df_flow, df_flow_sp, cfg):
\* [samples, within_band_pct, mean_error_cfm, mean_error_pct]
compute_flow_tracking(df_flow, df_flow_sp, cfg) ==
    LET merged == FlowMerged(df_flow, df_flow_sp, cfg.merge_tolerance_seconds)
        ErrorCfm(row) == row.l.value - row.r
        \* tol_cfm = |flow_sp| * pct_tol, clipped from below by abs_cfm_tolerance
        PctTol(row) == R(Abs(row.r) * cfg.pct_tolerance.n, cfg.pct_tolerance.d)
        TolCfm(row) == IF cfg.abs_cfm_tolerance # NaN
                          THEN RMax(PctTol(row), RInt(cfg.abs_cfm_tolerance))
                          ELSE PctTol(row)
        WithinBand(row) == RLe(RInt(Abs(ErrorCfm(row))), TolCfm(row))
        samples == Len(merged)
        valid == SelectSeq(merged, LAMBDA row : row.r # 0)
        \* sum of |error_cfm / flow_sp| over the rows with a non-zero setpoint,
        \* on the common denominator prod |flow_sp|
        AbsPct(row) == R(Abs(ErrorCfm(row)), Abs(row.r))
    IN IF df_flow = << >>
          THEN [samples |-> 0, within_band_pct |-> NoneNum,
                mean_error_cfm |-> NoneNum, mean_error_pct |-> NoneNum]
       ELSE IF df_flow_sp = << >>
          THEN [samples |-> Len(df_flow), within_band_pct |-> NoneNum,
                mean_error_cfm |-> NoneNum, mean_error_pct |-> NoneNum]
       ELSE IF merged = << >>
          THEN [samples |-> 0, within_band_pct |-> NoneNum,
                mean_error_cfm |-> NoneNum, mean_error_pct |-> NoneNum]
       ELSE [samples |-> samples,
             within_band_pct |-> Pct(Count(WithinBand, merged), samples),
             mean_error_cfm |-> R(SumOf(ErrorCfm, merged), samples),
             mean_error_pct |->
                IF valid = << >> THEN NoneNum
                ELSE LET RECURSIVE SumR(_)
                         SumR(rows) == IF rows = << >> THEN RInt(0)
                                       ELSE RAdd(AbsPct(rows[1]), SumR(Tail(rows)))
                     IN RMulInt(RDivInt(SumR(valid), Len(valid)), 100)]

\* the two damper percentages taken over all aligned rows
DamperPctsOverTotal(merged) ==
    LET total == Len(merged)
        Damper(row) == row.l.l.value
        Flow(row) == row.l.r
        HighOpen(row) == Damper(row) >= 80
        Closed(row) == Damper(row) <= 5
        has_sp == \E i \in 1..Len(merged) : merged[i].r # NaN
        merged_valid_sp == SelectSeq(merged, LAMBDA row : row.r # NaN)
        \* flow < 0.5 * flow_sp, flow > 0.8 * flow_sp
        LowVsSp(row) == 2 * Flow(row) < row.r
        HighVsSp(row) == 5 * Flow(row) > 4 * row.r
        fmax == CHOOSE x \in {Flow(merged[i]) : i \in 1..Len(merged)} :
                    \A i \in 1..Len(merged) : Flow(merged[i]) <= x
        \* f < 0.3 * f.max(), f > 0.7 * f.max()
        LowVsMax(row) == 10 * Flow(row) < 3 * fmax
        HighVsMax(row) == 10 * Flow(row) > 7 * fmax
        counts ==
            IF has_sp
               THEN IF merged_valid_sp # << >>
                       THEN <<Count(LAMBDA row : HighOpen(row) /\ LowVsSp(row), merged_valid_sp),
                              Count(LAMBDA row : Closed(row) /\ HighVsSp(row), merged_valid_sp),
                              total>>
                       ELSE <<0, 0, total>>
               ELSE IF fmax <= 0
                       THEN <<0, 0, total>>
                       ELSE <<Count(LAMBDA row : HighOpen(row) /\ LowVsMax(row), merged),
                              Count(LAMBDA row : Closed(row) /\ HighVsMax(row), merged),
                              total>>
    IN IF merged = << >> THEN <<NoneNum, NoneNum>>
       ELSE IF counts[3] > 0
               THEN <<Pct(counts[1], counts[3]), Pct(counts[2], counts[3])>>
               ELSE <<NoneNum, NoneNum>>

\* _compute_flow_and_damper_metrics, lines 224-260: the two damper percentages
\* <<damper_high_open_low_flow_pct, damper_closed_high_flow_pct>> of the
\* (damper, flow, flow_sp) rows
DamperPctsOf(merged) ==
    LET total == Len(merged)
        Damper(row) == row.l.l.value
        Flow(row) == row.l.r
        HighOpen(row) == Damper(row) >= 80
        Closed(row) == Damper(row) <= 5
        has_sp == \E i \in 1..Len(merged) : merged[i].r # NaN
        merged_valid_sp == SelectSeq(merged, LAMBDA row : row.r # NaN)
        \* flow < 0.5 * flow_sp, flow > 0.8 * flow_sp
        LowVsSp(row) == 2 * Flow(row) < row.r
        HighVsSp(row) == 5 * Flow(row) > 4 * row.r
        fmax == CHOOSE x \in {Flow(merged[i]) : i \in 1..Len(merged)} :
                    \A i \in 1..Len(merged) : Flow(merged[i]) <= x
        \* f < 0.3 * f.max(), f > 0.7 * f.max()
        LowVsMax(row) == 10 * Flow(row) < 3 * fmax
        HighVsMax(row) == 10 * Flow(row) > 7 * fmax
        counts ==
            IF has_sp
               THEN IF merged_valid_sp # << >>
                       THEN <<Count(LAMBDA row : HighOpen(row) /\ LowVsSp(row), merged_valid_sp),
                              Count(LAMBDA row : Closed(row) /\ HighVsSp(row), merged_valid_sp),
                              Len(merged_valid_sp)>>
                       ELSE <<0, 0, total>>
               ELSE IF fmax <= 0
                       THEN <<0, 0, total>>
                       ELSE <<Count(LAMBDA row : HighOpen(row) /\ LowVsMax(row), merged),
                              Count(LAMBDA row : Closed(row) /\ HighVsMax(row), merged),
                              total>>
    IN IF merged = << >> THEN <<NoneNum, NoneNum>>
       ELSE IF counts[3] > 0
               THEN <<Pct(counts[1], counts[3]), Pct(counts[2], counts[3])>>
               ELSE <<NoneNum, NoneNum>>

\* _compute_flow_and_damper_metrics: <<flow_samples, flow_within_band_pct,
\* mean_error_cfm, damper_high_open_low_flow_pct, damper_closed_high_flow_pct>>
_compute_flow_and_damper_metrics(df_flow, df_flow_sp, df_damper) ==
    LET metrics == compute_flow_tracking(df_flow, df_flow_sp, FlowTrackingConfig)
        flow3 == IF df_flow # << >>
                    THEN IF df_flow_sp = << >>
                            THEN <<Len(df_flow), NoneNum, NoneNum>>
                            ELSE <<metrics.samples, metrics.within_band_pct,
                                   metrics.mean_error_cfm>>
                    ELSE <<0, NoneNum, NoneNum>>
        damper2 == IF df_damper = << >> \/ df_flow = << >>
                      THEN <<NoneNum, NoneNum>>
                      ELSE DamperPctsOf(DamperMerged(df_damper, df_flow, df_flow_sp))
    IN flow3 \o damper2

\* the reheat-waste percentage taken over the reheat-on rows only
ReheatWasteOverReheatOn(df_reheat, df_temp, df_sp, cfg) ==
    LET merged   == ReheatMerged(df_reheat, df_temp, df_sp)
        occupied == Occupied(merged, cfg)
        HotAndReheat(row) == row.l.l.value > 10 /\ row.l.r >= row.r + 1
        total == Count(LAMBDA row : row.l.l.value > 10, occupied)
    IN IF df_reheat = << >> \/ df_temp = << >> \/ df_sp = << >> THEN NoneNum
       ELSE IF merged = << >> THEN NoneNum
       ELSE IF occupied = << >> THEN NoneNum
       ELSE IF total > 0 THEN Pct(Count(HotAndReheat, occupied), total) ELSE NoneNum

\* _compute_reheat_waste_metrics: reheat_waste_pct
_compute_reheat_waste_metrics(df_reheat, df_temp, df_sp, cfg) ==
    LET merged   == ReheatMerged(df_reheat, df_temp, df_sp)
        occupied == Occupied(merged, cfg)
        \* reheat > 10.0 and temp >= sp + 1.0
        HotAndReheat(row) == row.l.l.value > 10 /\ row.l.r >= row.r + 1
        total == Len(occupied)
    IN IF df_reheat = << >> \/ df_temp = << >> \/ df_sp = << >> THEN NoneNum
       ELSE IF merged = << >> THEN NoneNum
       ELSE IF occupied = << >> THEN NoneNum
       ELSE IF total > 0 THEN Pct(Count(HotAndReheat, occupied), total) ELSE NoneNum

(***************************************************************************)
(* analytics/zone_health.py : score and status classifier                  *)
(***************************************************************************)
\* ZoneHealthMetrics(station, zone_root, ...) with the dataclass defaults
NewMetrics ==
    [comfort_samples |-> 0,
     comfort_within_band_pct |-> NoneNum,
     comfort_mean_error_degF |-> NoneNum,
     flow_samples |-> 0,
     flow_within_band_pct |-> NoneNum,
     mean_flow_error_cfm |-> NoneNum,
     damper_high_open_low_flow_pct |-> NoneNum,
     damper_closed_high_flow_pct |-> NoneNum,
     reheat_waste_pct |-> NoneNum,
     overall_score |-> NoneNum,
     status |-> "no_data",
     reasons |-> << >>]

\* sum(c * w for c, w in zip(components, weights))
RECURSIVE SumWeighted(_)
SumWeighted(cs) ==
    IF cs = << >> THEN RInt(0)
    ELSE RAdd(RMulInt(cs[1].c, cs[1].w), SumWeighted(Tail(cs)))

\* every weight counted as 1
SumWeightsUnit(cs) == Len(cs)

\* sum(weights)
RECURSIVE SumWeights(_)
SumWeights(cs) ==
    IF cs = << >> THEN 0 ELSE cs[1].w + SumWeights(Tail(cs))

\* max(0.0, 100.0 - pct)
Inverse(pct) == RMax(RInt(0), RSub(RInt(100), pct))

\* the (component, weight) pairs appended by _compute_overall_score, in order
ScoreComponents(mm) ==
       (IF mm.comfort_within_band_pct # NoneNum
           THEN << [c |-> mm.comfort_within_band_pct, w |-> 3] >> ELSE << >>)
    \o (IF mm.flow_within_band_pct # NoneNum
           THEN << [c |-> mm.flow_within_band_pct, w |-> 2] >> ELSE << >>)
    \o (IF mm.damper_high_open_low_flow_pct # NoneNum
           THEN << [c |-> Inverse(mm.damper_high_open_low_flow_pct), w |-> 1] >> ELSE << >>)
    \o (IF mm.damper_closed_high_flow_pct # NoneNum
           THEN << [c |-> Inverse(mm.damper_closed_high_flow_pct), w |-> 1] >> ELSE << >>)
    \o (IF mm.reheat_waste_pct # NoneNum
           THEN << [c |-> Inverse(mm.reheat_waste_pct), w |-> 1] >> ELSE << >>)

\* divides by the number of components instead of the sum of the weights
ScoreDividedByCount(mm) ==
    LET cs == ScoreComponents(mm)
    IN IF cs = << >> THEN NoneNum
       ELSE RDivInt(SumWeighted(cs), Len(cs))

_compute_overall_score(mm) ==
    LET cs == ScoreComponents(mm)
    IN IF cs = << >> THEN NoneNum
       ELSE RDivInt(SumWeighted(cs), SumWeights(cs))

\* Position of a reason code in ascending string order (Python str comparison)
ReasonRank(code) ==
    CASE code = "borderline_comfort"       -> 1
      [] code = "borderline_flow_tracking" -> 2
      [] code = "cold_zone"                -> 3
      [] code = "damper_leak"              -> 4
      [] code = "damper_stuck"             -> 5
      [] code = "hot_zone"                 -> 6
      [] code = "poor_flow_tracking"       -> 7
      [] code = "possible_damper_leak"     -> 8
      [] code = "possible_damper_stuck"    -> 9
      [] code = "slightly_cold_zone"       -> 10
      [] code = "slightly_hot_zone"        -> 11

ReasonCodes ==
    {"borderline_comfort", "borderline_flow_tracking", "cold_zone",
     "damper_leak", "damper_stuck", "hot_zone", "poor_flow_tracking",
     "possible_damper_leak", "possible_damper_stuck", "slightly_cold_zone",
     "slightly_hot_zone"}

\* sorted(set(reasons))
RECURSIVE SortedOfSet(_)
SortedOfSet(S) ==
    IF S = {} THEN << >>
    ELSE LET lo == CHOOSE x \in S : \A y \in S : ReasonRank(x) <= ReasonRank(y)
         IN <<lo>> \o SortedOfSet(S \ {lo})

\* the reasons in append order, not sorted
SortedSetAppendOrder(reasons) == reasons

SortedSet(reasons) == SortedOfSet(Range(reasons))

\* the critical block without its damper_closed_high_flow test
CriticalReasonsNoStuck(mm) ==
       (IF /\ mm.comfort_within_band_pct # NoneNum
           /\ mm.comfort_mean_error_degF # NoneNum
           /\ RLt(mm.comfort_within_band_pct, RInt(50))
           /\ RLe(mm.comfort_mean_error_degF, RInt(-3))
           THEN <<"cold_zone">> ELSE << >>)
    \o (IF /\ mm.comfort_within_band_pct # NoneNum
           /\ mm.comfort_mean_error_degF # NoneNum
           /\ RLt(mm.comfort_within_band_pct, RInt(50))
           /\ RLe(RInt(3), mm.comfort_mean_error_degF)
           THEN <<"hot_zone">> ELSE << >>)
    \o (IF /\ mm.flow_within_band_pct # NoneNum
           /\ RLt(mm.flow_within_band_pct, RInt(40))
           THEN <<"poor_flow_tracking">> ELSE << >>)
    \o (IF /\ mm.damper_high_open_low_flow_pct # NoneNum
           /\ RLt(RInt(30), mm.damper_high_open_low_flow_pct)
           THEN <<"damper_leak">> ELSE << >>)

\* hot_zone only for a mean error above +3, not at +3
CriticalReasonsStrictHot(mm) ==
       (IF /\ mm.comfort_within_band_pct # NoneNum
           /\ mm.comfort_mean_error_degF # NoneNum
           /\ RLt(mm.comfort_within_band_pct, RInt(50))
           /\ RLe(mm.comfort_mean_error_degF, RInt(-3))
           THEN <<"cold_zone">> ELSE << >>)
    \o (IF /\ mm.comfort_within_band_pct # NoneNum
           /\ mm.comfort_mean_error_degF # NoneNum
           /\ RLt(mm.comfort_within_band_pct, RInt(50))
           /\ RLt(RInt(3), mm.comfort_mean_error_degF)
           THEN <<"hot_zone">> ELSE << >>)
    \o (IF /\ mm.flow_within_band_pct # NoneNum
           /\ RLt(mm.flow_within_band_pct, RInt(40))
           THEN <<"poor_flow_tracking">> ELSE << >>)
    \o (IF /\ mm.damper_high_open_low_flow_pct # NoneNum
           /\ RLt(RInt(30), mm.damper_high_open_low_flow_pct)
           THEN <<"damper_leak">> ELSE << >>)
    \o (IF /\ mm.damper_closed_high_flow_pct # NoneNum
           /\ RLt(RInt(30), mm.damper_closed_high_flow_pct)
           THEN <<"damper_stuck">> ELSE << >>)

\* the reasons appended by the "Critical conditions" block, in append order
CriticalReasons(mm) ==
       (IF /\ mm.comfort_within_band_pct # NoneNum
           /\ mm.comfort_mean_error_degF # NoneNum
           /\ RLt(mm.comfort_within_band_pct, RInt(50))
           /\ RLe(mm.comfort_mean_error_degF, RInt(-3))
           THEN <<"cold_zone">> ELSE << >>)
    \o (IF /\ mm.comfort_within_band_pct # NoneNum
           /\ mm.comfort_mean_error_degF # NoneNum
           /\ RLt(mm.comfort_within_band_pct, RInt(50))
           /\ RLe(RInt(3), mm.comfort_mean_error_degF)
           THEN <<"hot_zone">> ELSE << >>)
    \o (IF /\ mm.flow_within_band_pct # NoneNum
           /\ RLt(mm.flow_within_band_pct, RInt(40))
           THEN <<"poor_flow_tracking">> ELSE << >>)
    \o (IF /\ mm.damper_high_open_low_flow_pct # NoneNum
           /\ RLt(RInt(30), mm.damper_high_open_low_flow_pct)
           THEN <<"damper_leak">> ELSE << >>)
    \o (IF /\ mm.damper_closed_high_flow_pct # NoneNum
           /\ RLt(RInt(30), mm.damper_closed_high_flow_pct)
           THEN <<"damper_stuck">> ELSE << >>)

\* the warning block with the flow band open at 40 and the damper bands closed
\* at 10
WarningReasonsFlowOpen(mm) ==
       (IF /\ mm.comfort_within_band_pct # NoneNum
           /\ RLe(RInt(50), mm.comfort_within_band_pct)
           /\ RLt(mm.comfort_within_band_pct, RInt(80))
           THEN IF mm.comfort_mean_error_degF # NoneNum
                   THEN IF RLe(mm.comfort_mean_error_degF, RInt(-2))
                           THEN <<"slightly_cold_zone">>
                        ELSE IF RLe(RInt(2), mm.comfort_mean_error_degF)
                           THEN <<"slightly_hot_zone">>
                        ELSE <<"borderline_comfort">>
                   ELSE <<"borderline_comfort">>
           ELSE << >>)
    \o (IF /\ mm.flow_within_band_pct # NoneNum
           /\ RLt(RInt(40), mm.flow_within_band_pct)
           /\ RLt(mm.flow_within_band_pct, RInt(70))
           THEN <<"borderline_flow_tracking">> ELSE << >>)
    \o (IF /\ mm.damper_high_open_low_flow_pct # NoneNum
           /\ RLe(RInt(10), mm.damper_high_open_low_flow_pct)
           /\ RLe(mm.damper_high_open_low_flow_pct, RInt(30))
           THEN <<"possible_damper_leak">> ELSE << >>)
    \o (IF /\ mm.damper_closed_high_flow_pct # NoneNum
           /\ RLe(RInt(10), mm.damper_closed_high_flow_pct)
           /\ RLe(mm.damper_closed_high_flow_pct, RInt(30))
           THEN <<"possible_damper_stuck">> ELSE << >>)

\* the reasons appended by the "Warning signals" block, in append order
WarningReasons(mm) ==
       (IF /\ mm.comfort_within_band_pct # NoneNum
           /\ RLe(RInt(50), mm.comfort_within_band_pct)
           /\ RLt(mm.comfort_within_band_pct, RInt(80))
           THEN IF mm.comfort_mean_error_degF # NoneNum
                   THEN IF RLe(mm.comfort_mean_error_degF, RInt(-2))
                           THEN <<"slightly_cold_zone">>
                        ELSE IF RLe(RInt(2), mm.comfort_mean_error_degF)
                           THEN <<"slightly_hot_zone">>
                        ELSE <<"borderline_comfort">>
                   ELSE <<"borderline_comfort">>
           ELSE << >>)
    \o (IF /\ mm.flow_within_band_pct # NoneNum
           /\ RLe(RInt(40), mm.flow_within_band_pct)
           /\ RLt(mm.flow_within_band_pct, RInt(70))
           THEN <<"borderline_flow_tracking">> ELSE << >>)
    \o (IF /\ mm.damper_high_open_low_flow_pct # NoneNum
           /\ RLt(RInt(10), mm.damper_high_open_low_flow_pct)
           /\ RLe(mm.damper_high_open_low_flow_pct, RInt(30))
           THEN <<"possible_damper_leak">> ELSE << >>)
    \o (IF /\ mm.damper_closed_high_flow_pct # NoneNum
           /\ RLt(RInt(10), mm.damper_closed_high_flow_pct)
           /\ RLe(mm.damper_closed_high_flow_pct, RInt(30))
           THEN <<"possible_damper_stuck">> ELSE << >>)

\* a reheat waste above 20 percent makes an otherwise ok zone a warning
DeriveStatusReheatWarning(mm) ==
    IF /\ mm.comfort_samples = 0
       /\ mm.flow_within_band_pct = NoneNum
       /\ mm.comfort_within_band_pct = NoneNum
       THEN [mm EXCEPT !.status = "no_data", !.reasons = << >>]
    ELSE IF CriticalReasons(mm) # << >>
       THEN [mm EXCEPT !.status = "critical",
                       !.reasons = SortedSet(CriticalReasons(mm))]
    ELSE IF WarningReasons(mm) # << >>
       THEN [mm EXCEPT !.status = "warning",
                       !.reasons = SortedSet(WarningReasons(mm))]
    ELSE IF mm.reheat_waste_pct # NoneNum /\ RLt(RInt(20), mm.reheat_waste_pct)
       THEN [mm EXCEPT !.status = "warning", !.reasons = <<"borderline_comfort">>]
    ELSE [mm EXCEPT !.status = "ok", !.reasons = << >>]

\* the warning tier sets the status and leaves reasons as it was
DeriveStatusWarningNoReasons(mm) ==
    IF /\ mm.comfort_samples = 0
       /\ mm.flow_within_band_pct = NoneNum
       /\ mm.comfort_within_band_pct = NoneNum
       THEN [mm EXCEPT !.status = "no_data", !.reasons = << >>]
    ELSE IF CriticalReasons(mm) # << >>
       THEN [mm EXCEPT !.status = "critical",
                       !.reasons = SortedSet(CriticalReasons(mm))]
    ELSE IF WarningReasons(mm) # << >>
       THEN [mm EXCEPT !.status = "warning"]
    ELSE [mm EXCEPT !.status = "ok", !.reasons = << >>]

\* the no_data test as the docstring words it: comfort_samples == 0 OR both
\* percentages None
DeriveStatusNoDataOr(mm) ==
    IF \/ mm.comfort_samples = 0
       \/ /\ mm.flow_within_band_pct = NoneNum
          /\ mm.comfort_within_band_pct = NoneNum
       THEN [mm EXCEPT !.status = "no_data", !.reasons = << >>]
    ELSE IF CriticalReasons(mm) # << >>
       THEN [mm EXCEPT !.status = "critical",
                       !.reasons = SortedSet(CriticalReasons(mm))]
    ELSE IF WarningReasons(mm) # << >>
       THEN [mm EXCEPT !.status = "warning",
                       !.reasons = SortedSet(WarningReasons(mm))]
    ELSE [mm EXCEPT !.status = "ok", !.reasons = << >>]

\* _derive_status_and_reasons(m): the record after m.status and m.reasons are set.
\* The flags `critical` and `warning` are set exactly when a reason is appended.
_derive_status_and_reasons(mm) ==
    IF /\ mm.comfort_samples = 0
       /\ mm.flow_within_band_pct = NoneNum
       /\ mm.comfort_within_band_pct = NoneNum
       THEN [mm EXCEPT !.status = "no_data", !.reasons = << >>]
    ELSE IF CriticalReasons(mm) # << >>
       THEN [mm EXCEPT !.status = "critical",
                       !.reasons = SortedSet(CriticalReasons(mm))]
    ELSE IF WarningReasons(mm) # << >>
       THEN [mm EXCEPT !.status = "warning",
                       !.reasons = SortedSet(WarningReasons(mm))]
    ELSE [mm EXCEPT !.status = "ok", !.reasons = << >>]

\* compute_zone_health, line 537: metrics.overall_score = _compute_overall_score(metrics)
OverallScoreStep ==
    /\ pc = "metrics"
    /\ m' = [m EXCEPT !.overall_score = _compute_overall_score(m)]
    /\ pc' = "scored"
    /\ UNCHANGED <<indexVars, frames, aligned, raised, healthInputs, moreVars, ruleVars>>

\* compute_zone_health, line 540: _derive_status_and_reasons(metrics); return metrics
StatusStep ==
    /\ pc = "scored"
    /\ m' = _derive_status_and_reasons(m)
    /\ pc' = "done"
    /\ UNCHANGED <<indexVars, frames, aligned, raised, healthInputs, moreVars, ruleVars>>

\* Percentages and mean errors the metric computors can hand to the scorer
ComfortPcts == {RInt(0), RInt(45), R(99, 2), RInt(50), RInt(79), RInt(80), RInt(90), RInt(95)}
MeanErrors  == {RInt(-4), RInt(-3), R(-5, 2), RInt(-2), RInt(0), RInt(2), RInt(3)}
FlowPcts    == {NoneNum, RInt(0), RInt(39), RInt(40), RInt(55), RInt(69), RInt(70), RInt(95)}
DamperPcts  == {RInt(0), RInt(10), RInt(11), RInt(30), R(61, 2), RInt(60)}
ReheatPcts  == {NoneNum, RInt(0), RInt(50), RInt(100)}

\* The records compute_zone_health can hold after the metric computors ran:
\* comfort fields are all absent or all present (_compute_comfort_metrics),
\* flow_within_band_pct needs flow samples (compute_flow_tracking), the two
\* damper percentages are set together and count disjoint row classes.
MetricsRecords ==
    { [NewMetrics EXCEPT
          !.comfort_samples = c[1],
          !.comfort_within_band_pct = c[2],
          !.comfort_mean_error_degF = c[3],
          !.flow_samples = IF f = NoneNum THEN 0 ELSE 200,
          !.flow_within_band_pct = f,
          !.damper_high_open_low_flow_pct = d[1],
          !.damper_closed_high_flow_pct = d[2],
          !.reheat_waste_pct = r] :
        c \in {<<0, NoneNum, NoneNum>>} \cup ({200} \X ComfortPcts \X MeanErrors),
        f \in FlowPcts,
        d \in {<<NoneNum, NoneNum>>}
                \cup {x \in DamperPcts \X DamperPcts : RLe(RAdd(x[1], x[2]), RInt(100))},
        r \in ReheatPcts }

\* compute_zone_health after its metric computors returned some record
InitClassify ==
    /\ catalog = << >>
    /\ pos = 0
    /\ index = << >>
    /\ m \in MetricsRecords
    /\ pc = "metrics"
    /\ frames = << >>
    /\ aligned = << >>
    /\ raised = FALSE
    /\ zone_info = << >>
    /\ store = << >>
    /\ comfort_cfg = << >>
    /\ rule_source = NoRuleFile
    /\ rules_cache = << >>
    /\ point = << >>
    /\ inferred = NoRole
    /\ MoreIdle

NextClassify == OverallScoreStep \/ StatusStep

SpecClassify == InitClassify /\ [][NextClassify]_vars

\* Timestamps 30, 31, 60 and 61 seconds apart occur among these
AlignTimes == {0, 30, 31, 61, 91}

AlignRows == [timestamp : AlignTimes, value : {70}]

\* the third series of the two-stage joins (flow setpoint, space setpoint)
ThirdFrames ==
    { << >>,
      << [timestamp |-> 30, value |-> 70] >>,
      << [timestamp |-> 61, value |-> 70] >>,
      << [timestamp |-> 91, value |-> 70], [timestamp |-> 0, value |-> 70] >> }

\* _compute_comfort_metrics(df_temp = left, df_sp = right): the join
ComfortJoin ==
    /\ pc = "align"
    /\ aligned' = ComfortMerged(frames.left, frames.right)
    /\ raised' = (raised \/ ComfortRaises(frames.left, frames.right))
    /\ pc' = "comfort"
    /\ UNCHANGED <<indexVars, m, frames, healthInputs, moreVars, ruleVars>>

\* compute_flow_tracking(df_flow = left, df_flow_sp = right): the join
FlowJoin ==
    /\ pc = "align"
    /\ aligned' = FlowMerged(frames.left, frames.right, MERGE_TOLERANCE_SECONDS)
    /\ raised' = (raised \/ FlowRaises(frames.left, frames.right))
    /\ pc' = "flow"
    /\ UNCHANGED <<indexVars, m, frames, healthInputs, moreVars, ruleVars>>

\* _compute_flow_and_damper_metrics(df_damper = left, df_flow = right,
\* df_flow_sp = third): the two joins of the damper block
DamperJoin ==
    /\ pc = "align"
    /\ aligned' = DamperMerged(frames.left, frames.right, frames.third)
    /\ raised' = (raised \/ DamperRaises(frames.left, frames.right, frames.third))
    /\ pc' = "damper"
    /\ UNCHANGED <<indexVars, m, frames, healthInputs, moreVars, ruleVars>>

\* _compute_reheat_waste_metrics(df_reheat = left, df_temp = right,
\* df_sp = third): the two joins
ReheatJoin ==
    /\ pc = "align"
    /\ aligned' = ReheatMerged(frames.left, frames.right, frames.third)
    /\ raised' = (raised \/ ReheatRaises(frames.left, frames.right, frames.third))
    /\ pc' = "reheat"
    /\ UNCHANGED <<indexVars, m, frames, healthInputs, moreVars, ruleVars>>

\* rtu._compute_discharge_metrics(df_da = left, df_da_sp = right): the join
DischargeJoin ==
    /\ pc = "align"
    /\ aligned' = DischargeMerged(frames.left, frames.right)
    /\ raised' = (raised \/ DischargeRaises(frames.left, frames.right))
    /\ pc' = "discharge"
    /\ UNCHANGED <<indexVars, m, frames, healthInputs, moreVars, ruleVars>>

\* A computor is called on some frames
InitAlign ==
    /\ catalog = << >>
    /\ pos = 0
    /\ index = << >>
    /\ m = NewMetrics
    /\ pc = "align"
    /\ frames \in [left : SeqsUpTo(AlignRows, MaxAlign),
                   right : SeqsUpTo(AlignRows, MaxAlign),
                   third : ThirdFrames]
    /\ aligned = << >>
    /\ raised = FALSE
    /\ zone_info = << >>
    /\ store = << >>
    /\ comfort_cfg = << >>
    /\ rule_source = NoRuleFile
    /\ rules_cache = << >>
    /\ point = << >>
    /\ inferred = NoRole
    /\ MoreIdle

NextAlign == ComfortJoin \/ FlowJoin \/ DamperJoin \/ ReheatJoin \/ DischargeJoin

SpecAlign == InitAlign /\ [][NextAlign]_vars

(***************************************************************************)
(* analytics/zone_health.py : compute_zone_health                          *)
(***************************************************************************)
\* the keys of zone_info that compute_zone_health queries
HealthRoles == {"space_temp", "space_temp_sp", "flow", "flow_sp", "damper", "reheat"}

\* lines 507-513: the six _query_series_df calls
QueryStep ==
    /\ pc = "start"
    /\ ~raised
    /\ frames' = [r \in HealthRoles |-> _query_series_df(zone_info[r], store[r])]
    /\ pc' = "queried"
    /\ UNCHANGED <<indexVars, m, aligned, raised, healthInputs, moreVars, ruleVars>>

\* lines 515-520: comfort
ComfortStep ==
    /\ pc = "queried"
    /\ ~raised
    /\ LET res == _compute_comfort_metrics(frames.space_temp, frames.space_temp_sp,
                                           comfort_cfg)
       IN m' = [m EXCEPT !.comfort_samples = res[1],
                         !.comfort_within_band_pct = res[2],
                         !.comfort_mean_error_degF = res[3]]
    /\ aligned' = ComfortMerged(frames.space_temp, frames.space_temp_sp)
    /\ raised' = ComfortRaises(frames.space_temp, frames.space_temp_sp)
    /\ pc' = "comfort_done"
    /\ UNCHANGED <<indexVars, frames, healthInputs, moreVars, ruleVars>>

\* lines 522-529: flow + damper
FlowDamperStep ==
    /\ pc = "comfort_done"
    /\ ~raised
    /\ \E res \in {_compute_flow_and_damper_metrics(frames.flow, frames.flow_sp,
                                                      frames.damper)} :
          m' = [m EXCEPT !.flow_samples = res[1],
                         !.flow_within_band_pct = res[2],
                         !.mean_flow_error_cfm = res[3],
                         !.damper_high_open_low_flow_pct = res[4],
                         !.damper_closed_high_flow_pct = res[5]]
    /\ aligned' = DamperMerged(frames.damper, frames.flow, frames.flow_sp)
    /\ raised' = \/ FlowRaises(frames.flow, frames.flow_sp)
                 \/ DamperRaises(frames.damper, frames.flow, frames.flow_sp)
    /\ pc' = "flow_done"
    /\ UNCHANGED <<indexVars, frames, healthInputs, moreVars, ruleVars>>

\* lines 531-534: reheat waste
ReheatStep ==
    /\ pc = "flow_done"
    /\ ~raised
    /\ m' = [m EXCEPT !.reheat_waste_pct =
                _compute_reheat_waste_metrics(frames.reheat, frames.space_temp,
                                              frames.space_temp_sp, comfort_cfg)]
    /\ aligned' = ReheatMerged(frames.reheat, frames.space_temp, frames.space_temp_sp)
    /\ raised' = ReheatRaises(frames.reheat, frames.space_temp, frames.space_temp_sp)
    /\ pc' = "metrics"
    /\ UNCHANGED <<indexVars, frames, healthInputs, moreVars, ruleVars>>

\* Rows of the store: ts in seconds (07:00:00 is 25200), BadTs when unparseable
Sample(ts, value) == [ts |-> ts, value |-> value]

\* what query_series can return for the series of a role
StoreRows(role) ==
    CASE role = "space_temp" ->
            { << >>, <<Sample(25200, 72)>>, <<Sample(25200, 75), Sample(25260, 71)>> }
      [] role = "space_temp_sp" ->
            { << >>, <<Sample(25215, 70)>>, <<Sample(25140, 70), Sample(BadTs, 70)>>,
              <<Sample(25260, 70)>> }
      [] role = "flow" ->
            { << >>, <<Sample(25200, 500)>>, <<Sample(25200, 100), Sample(25230, 480)>> }
      [] role = "flow_sp" ->
            { << >>, <<Sample(25200, 500)>>, <<Sample(25290, 0)>> }
      [] role = "damper" ->
            { << >>, <<Sample(25200, 90)>>, <<Sample(25215, 0), Sample(25300, 100)>> }
      [] role = "reheat" ->
            { << >>, <<Sample(25230, 50)>>, <<Sample(25200, 0), Sample(25245, 100)>> }

\* an unset slot is never queried: its series is left out of the store
RowsFor(info, role) == IF info[role] = None THEN {<< >>} ELSE StoreRows(role)

ComfortConfigs ==
    { [occupied_start |-> <<7, 0>>, occupied_end |-> <<18, 0>>, comfort_band_degF |-> 2],
      [occupied_start |-> <<7, 1>>, occupied_end |-> <<18, 0>>, comfort_band_degF |-> 1] }

\* compute_zone_health(station, zone_root, zone_info, comfort_cfg, start, end)
\* is called: metrics = ZoneHealthMetrics(...) with the dataclass defaults
InitHealth ==
    /\ catalog = << >>
    /\ pos = 0
    /\ index = << >>
    /\ m = NewMetrics
    /\ pc = "start"
    /\ frames = << >>
    /\ aligned = << >>
    /\ raised = FALSE
    /\ zone_info \in [HealthRoles -> {None, <<"id">>}]
    /\ store \in { [space_temp |-> a, space_temp_sp |-> b, flow |-> c,
                     flow_sp |-> d, damper |-> e, reheat |-> f] :
                       a \in RowsFor(zone_info, "space_temp"),
                       b \in RowsFor(zone_info, "space_temp_sp"),
                       c \in RowsFor(zone_info, "flow"),
                       d \in RowsFor(zone_info, "flow_sp"),
                       e \in RowsFor(zone_info, "damper"),
                       f \in RowsFor(zone_info, "reheat") }
    /\ comfort_cfg \in ComfortConfigs
    /\ rule_source = NoRuleFile
    /\ rules_cache = << >>
    /\ point = << >>
    /\ inferred = NoRole
    /\ MoreIdle

NextHealth ==
    \/ QueryStep \/ ComfortStep \/ FlowDamperStep \/ ReheatStep
    \/ (OverallScoreStep /\ ~raised)
    \/ (StatusStep /\ ~raised)

SpecHealth == InitHealth /\ [][NextHealth]_vars

(***************************************************************************)
(* analytics/zone_pairs.py                                                 *)
(***************************************************************************)
\* [\s_-] of ZONE_RE: the separator characters
Separators == {" ", "_", "-"}

\* \d+ : a maximal run of digits is one token
Digits == {"1", "2"}

\* the equipment alternatives of ZONE_RE that occur in the modelled labels
EquipWords == {"vav", "rtu"}

\* number of consecutive separator tokens of s starting at position i
RECURSIVE SepRun(_, _)
SepRun(s, i) ==
    IF i <= Len(s) /\ s[i] \in Separators THEN 1 + SepRun(s, i + 1) ELSE 0

\* ZONE_RE matched at position i of s: the length of the (greedy) match, 0 if none.
\*   (?:vav|...)[\s_-]*\d+(?:[\s_-]*\d+)?
ZoneMatchLen(s, i) ==
    IF i > Len(s) \/ s[i] \notin EquipWords THEN 0
    ELSE LET j == i + 1 + SepRun(s, i + 1)          \* position of the first \d+
         IN IF j > Len(s) \/ s[j] \notin Digits THEN 0
            ELSE LET k == j + 1 + SepRun(s, j + 1)  \* position of the optional \d+
                 IN IF k <= Len(s) /\ s[k] \in Digits
                       THEN k - i + 1
                       ELSE j - i + 1

\* root.replace("_", "-").replace(" ", "-")
ReplaceSeps(s) == [i \in 1..Len(s) |-> IF s[i] \in {"_", " "} THEN "-" ELSE s[i]]

\* re.sub(r"-{2,}", "-", root)
RECURSIVE CollapseDashes(_)
CollapseDashes(s) ==
    IF Len(s) <= 1 THEN s
    ELSE IF s[1] = "-" /\ s[2] = "-" THEN CollapseDashes(Tail(s))
         ELSE <<s[1]>> \o CollapseDashes(Tail(s))

\* root.strip("-")
RECURSIVE StripDashes(_)
StripDashes(s) ==
    IF s = <<>> THEN s
    ELSE IF s[1] = "-" THEN StripDashes(Tail(s))
         ELSE IF s[Len(s)] = "-" THEN StripDashes(SubSeq(s, 1, Len(s) - 1))
              ELSE s

\* _infer_zone_root(label): None, or the normalised first match of ZONE_RE
_infer_zone_root(label) ==
    IF label = <<>> THEN None
    ELSE LET starts == {i \in 1..Len(label) : ZoneMatchLen(label, i) > 0}
         IN IF starts = {} THEN None
            ELSE LET i == CHOOSE x \in starts : \A y \in starts : x <= y
                     root == SubSeq(label, i, i + ZoneMatchLen(label, i) - 1)
                 IN StripDashes(CollapseDashes(ReplaceSeps(root)))

\* The roles of ROLE_PATTERNS in dict order (the slots of ZonePair)
RoleOrder == <<"space_temp", "space_temp_sp", "flow", "flow_sp", "damper",
               "reheat", "fan_cmd", "fan_status", "cooling_valve",
               "heating_valve", "compressor_cmd", "compressor_status">>

Roles == Range(RoleOrder)

\* ROLE_PATTERNS restricted to the patterns whose words occur in the modelled
\* labels; a pattern w1\s*w2... is the sequence of its words.
ROLE_PATTERNS(role) ==
    CASE role = "space_temp"    -> << <<"space", "temp">>, <<"zone", "temp">> >>
      [] role = "space_temp_sp" -> << <<"space", "temp", "sp">>, <<"zone", "setpoint">> >>
      [] role = "flow"          -> << <<"air", "flow">>, <<"airflow">> >>
      [] role = "flow_sp"       -> << <<"flow", "setpoint">>, <<"airflow", "sp">> >>
      [] role = "damper"        -> << <<"damper">> >>
      [] role = "reheat"        -> << <<"reheat">> >>
      [] OTHER                  -> << >>

\* number of consecutive " " tokens of s starting at i  (\s*)
RECURSIVE SpaceRun(_, _)
SpaceRun(s, i) ==
    IF i <= Len(s) /\ s[i] = " " THEN 1 + SpaceRun(s, i + 1) ELSE 0

\* pattern pat (words joined by \s*) matches s at position i
RECURSIVE PatMatchAt(_, _, _)
PatMatchAt(pat, s, i) ==
    IF pat = <<>> THEN TRUE
    ELSE /\ i <= Len(s)
         /\ s[i] = pat[1]
         /\ IF Len(pat) = 1 THEN TRUE
            ELSE PatMatchAt(Tail(pat), s, i + 1 + SpaceRun(s, i + 1))

\* re.search(pat, s)
ReSearch(pat, s) == \E i \in 1..Len(s) : PatMatchAt(pat, s, i)

\* _infer_role(label): the first role, in dict order, one of whose patterns matches
_infer_role(label) ==
    IF label = <<>> THEN NoRole
    ELSE LET hits == {r \in 1..Len(RoleOrder) :
                        \E p \in Range(ROLE_PATTERNS(RoleOrder[r])) : ReSearch(p, label)}
         IN IF hits = {} THEN NoRole
            ELSE RoleOrder[CHOOSE r \in hits : \A q \in hits : r <= q]

\* ZonePair(station_key=..., station_name=..., zone_root=...): all slots None
NewZonePair(station_key, station_name, zone_root) ==
    [station_key |-> station_key, station_name |-> station_name,
     zone_root |-> zone_root, slots |-> [r \in Roles |-> None]]

\* "Fill only the first discovered role"
FillSlotOverwrite(zp, role, history_id) ==
    [zp EXCEPT !.slots[role] = history_id]

FillSlot(zp, role, history_id) ==
    IF zp.slots[role] = None
       THEN [zp EXCEPT !.slots[role] = history_id]
       ELSE zp

\* one iteration of the for loop of build_zone_pair_index on row, given index ix
ProcessRow(ix, row) ==
    LET station_key  == row.station_key
        station_name == row.stationName
        history_id   == row.historyId
        zone_root    == _infer_zone_root(history_id)
        role         == _infer_role(history_id)
        key          == <<station_key, zone_root>>
    IN IF zone_root = None THEN ix
       ELSE IF role = NoRole THEN ix
       ELSE LET zp == IF key \in DOMAIN ix
                         THEN ix[key]
                         ELSE NewZonePair(station_key, station_name, zone_root)
            IN [k \in DOMAIN ix \cup {key} |->
                  IF k = key THEN FillSlot(zp, role, history_id) ELSE ix[k]]

\* The history ids of the modelled catalogs, as token sequences
HistoryIds ==
    { <<"vav", "1", " ", "space", "temp">>,
      <<"vav", "1", " ", "zone", " ", "temp">>,
      <<"vav", "_", "-", "1", "_", "space", "temp", " ", "sp">>,
      <<"vav", "-", "1", "-", "2", " ", "air", "flow">>,
      <<"rtu", "2", "_", "damper">>,
      <<"space", "temp">>,
      <<"vav", "1", "_", "fault">> }

Stations == {"AmsShop", "Plant"}

\* Rows as build_zone_pair_index reads them: row.get(k) or "" for the keys
\* station_key, stationName, historyId.  A row of the current
\* sqlite_store.list_series carries none of these keys and reads as all "";
\* what it does carry is station, history_id and, when known, equipment (a
\* string of characters, None when unknown).
BuilderRows ==
    [station_key : Stations, stationName : {"ams"}, historyId : HistoryIds,
     station : {""}, equipment : {None}]
        \cup [station_key : {""}, stationName : {""}, historyId : {None},
              station : {"AmsShop"}, equipment : {None, <<"B", " ", "2">>}]

\* build_zone_pair_index is called again (find_zone_pair, zone_pairs_as_dicts):
\* series = list_series() of the unchanged store, index = {}
StartBuild ==
    /\ pos = Len(catalog)
    /\ pos' = 0
    /\ index' = << >>
    /\ UNCHANGED <<catalog, m, pc, frames, aligned, raised, healthInputs, moreVars, ruleVars>>

\* one iteration of `for row in series`
BuildStep ==
    /\ pos < Len(catalog)
    /\ index' = ProcessRow(index, catalog[pos + 1])
    /\ pos' = pos + 1
    /\ UNCHANGED <<catalog, m, pc, frames, aligned, raised, healthInputs, moreVars, ruleVars>>

\* First call of build_zone_pair_index on some catalog
InitIndex ==
    /\ catalog \in SeqsUpTo(BuilderRows, MaxCatalog)
    /\ pos = 0
    /\ index = << >>
    /\ m = NewMetrics
    /\ pc = "idle"
    /\ frames = << >>
    /\ aligned = << >>
    /\ raised = FALSE
    /\ zone_info = << >>
    /\ store = << >>
    /\ comfort_cfg = << >>
    /\ rule_source = NoRuleFile
    /\ rules_cache = << >>
    /\ point = << >>
    /\ inferred = NoRole
    /\ MoreIdle

NextIndex == StartBuild \/ BuildStep

SpecIndex == InitIndex /\ [][NextIndex]_vars

(***************************************************************************)
(* analytics/role_rules.py                                                 *)
(***************************************************************************)
\* str.lower() on the tokens and tags of the modelled points and rules
Lower(tok) ==
    CASE tok = "Space" -> "space"
      [] tok = "Temp" -> "temp"
      [] tok = "Zone" -> "zone"
      [] tok = "SP" -> "sp"
      [] tok = "zoneAirTempSensor" -> "zoneairtempsensor"
      [] OTHER -> tok

LowerSeq(s) == [i \in 1..Len(s) |-> Lower(s[i])]

LowerSet(S) == {Lower(t) : t \in S}

\* RoleRule(role, name_regex, tags_all, tags_any, priority)
RoleRule(role, priority, name_regex, tags_all, tags_any) ==
    [role |-> role, priority |-> priority, name_regex |-> name_regex,
     tags_all |-> tags_all, tags_any |-> tags_any]

\* RoleRule.matches(label, tags); tags is a set (empty for None)
Matches(rule, label, tags) ==
    LET s == LowerSeq(label)
        tag_set == LowerSet(tags)
    IN IF rule.tags_all # {} /\ ~(LowerSet(rule.tags_all) \subseteq tag_set) THEN FALSE
       ELSE IF rule.tags_any # {} /\ tag_set \cap LowerSet(rule.tags_any) = {} THEN FALSE
       ELSE IF rule.name_regex # << >>
          THEN \E i \in 1..Len(rule.name_regex) : ReSearch(rule.name_regex[i], s)
          ELSE TRUE

\* a name_regex entry that is not a regular expression: re.search raises re.error
BadPattern == <<"(">>

\* RoleRule.matches(label, tags) raises: the tag tests pass and, at line 53,
\* any(...) reaches a pattern that does not compile before one that matches
MatchesRaises(rule, label, tags) ==
    LET s == LowerSeq(label)
        tag_set == LowerSet(tags)
    IN IF rule.tags_all # {} /\ ~(LowerSet(rule.tags_all) \subseteq tag_set) THEN FALSE
       ELSE IF rule.tags_any # {} /\ tag_set \cap LowerSet(rule.tags_any) = {} THEN FALSE
       ELSE \E i \in 1..Len(rule.name_regex) :
               /\ rule.name_regex[i] = BadPattern
               /\ \A j \in 1..(i - 1) : /\ rule.name_regex[j] # BadPattern
                                         /\ ~ReSearch(rule.name_regex[j], s)

\* _DEFAULT_RULES_SPEC; a name_regex w1\s*w2... is the sequence of its words
\* (the patterns with \b, \d*, a lookahead or an alternation are left out)
_DEFAULT_RULES_SPEC ==
    << RoleRule("space_temp", 4, << >>, {"zoneairtempsensor"}, {}),
       RoleRule("space_temp", 5, << >>, {"zone", "temp", "sensor"}, {}),
       RoleRule("space_temp", 10,
                << <<"space", "temp">>, <<"zone", "temp">>, <<"room", "temp">>,
                   <<"effective", "space", "temp">> >>, {}, {}),
       RoleRule("space_temp_sp", 4, << >>, {"zone", "temp", "sp"}, {}),
       RoleRule("space_temp_sp", 10,
                << <<"space", "temp", "setpoint">>, <<"zone", "temp", "setpoint">>,
                   <<"room", "temp", "setpoint">>, <<"effective", "setpoint">> >>, {}, {}),
       RoleRule("flow", 6, << >>, {"air", "flow", "zone"}, {}),
       RoleRule("flow", 10,
                << <<"box", "flow">>, <<"air", "flow">>, <<"airflow">>,
                   <<"supply", "cfm">>, <<"return", "cfm">> >>, {}, {}),
       RoleRule("flow_sp", 4, << >>, {"air", "flow", "zone", "sp"}, {}),
       RoleRule("flow_sp", 10,
                << <<"flow", "setpoint">>, <<"airflow", "sp">>, <<"min", "cfm">>,
                   <<"max", "cfm">> >>, {}, {}),
       RoleRule("damper", 5, << >>, {"damper"}, {}),
       RoleRule("damper", 10,
                << <<"damper", "position">>, <<"damper", "output">>, <<"oa", "damper">> >>,
                {}, {}),
       RoleRule("reheat", 5, << >>, {"reheat"}, {}),
       RoleRule("reheat", 10,
                << <<"rh", "valve">>, <<"heating", "valve">>,
                   <<"hot", "water", "valve">> >>, {}, {}),
       RoleRule("fan_cmd", 5, << >>, {}, {"fan_cmd", "fancommand", "fancommanded"}),
       RoleRule("fan_cmd", 6, << <<"supply", "fan", "speed">> >>, {}, {}),
       RoleRule("fan_cmd", 10,
                << <<"fan", "cmd">>, <<"fan", "command">>, <<"supply", "fan", "cmd">>,
                   <<"supply", "fan", "command">> >>, {}, {}),
       RoleRule("fan_status", 10,
                << <<"fan", "status">>, <<"fan", "proof">>, <<"supply", "fan", "status">>,
                   <<"supply", "fan", "proof">> >>, {}, {}),
       RoleRule("cooling_valve", 10,
                << <<"cooling", "valve">>, <<"chilled", "water", "valve">>,
                   <<"cw", "valve">> >>, {}, {}),
       RoleRule("heating_valve", 10,
                << <<"heating", "valve">>, <<"hw", "valve">>, <<"boiler", "valve">> >>,
                {}, {}),
       RoleRule("compressor_cmd", 10, << <<"compressor", "cmd">>, <<"stage", "cmd">> >>,
                {}, {}),
       RoleRule("compressor_status", 10,
                << <<"compressor", "status">>, <<"stage", "status">>,
                   <<"compressor", "proof">>, <<"stage", "proof">> >>, {}, {}) >>

\* spec.get("priority", 100) of a rule spec without a priority
Absent == -1

\* RoleRule(role=..., priority=int(spec.get("priority", 100)), ...) of one spec
RuleOfSpec(spec) ==
    RoleRule(spec.role, IF spec.priority = Absent THEN 100 ELSE spec.priority,
             spec.name_regex, spec.tags_all, spec.tags_any)

\* _load_rules_from_file(path): the rules of a well-formed file
_load_rules_from_file(specs) == [i \in 1..Len(specs) |-> RuleOfSpec(specs[i])]

\* _default_rules()
_default_rules == _load_rules_from_file(_DEFAULT_RULES_SPEC)

\* the body of get_rules(): the file's rules, the defaults when the file is
\* missing (FileNotFoundError) or cannot be loaded (any other Exception)
LoadRules(source) ==
    IF source.file \in {"missing", "malformed"} THEN _default_rules
    ELSE _load_rules_from_file(source.specs)

\* lru_cache has no entry for get_rules yet
NotLoaded == << >>

\* get_rules() through lru_cache(maxsize=1): <<rules, cache afterwards>>
get_rules(cache, source) ==
    IF cache # NotLoaded THEN <<cache[1], cache>>
    ELSE <<LoadRules(source), <<LoadRules(source)>> >>

\* the loop of infer_role: best after the rules from position i on, given best
\* so far (0 for None, else the position of the rule held in best)
RECURSIVE BestLastWins(_, _, _, _, _)
BestLastWins(rules, label, tags, i, best) ==
    IF i > Len(rules) THEN best
    ELSE IF /\ Matches(rules[i], label, tags)
            /\ (best = 0 \/ rules[i].priority <= rules[best].priority)
            THEN BestLastWins(rules, label, tags, i + 1, i)
            ELSE BestLastWins(rules, label, tags, i + 1, best)

RECURSIVE BestFrom(_, _, _, _, _)
BestFrom(rules, label, tags, i, best) ==
    IF i > Len(rules) THEN best
    ELSE IF /\ Matches(rules[i], label, tags)
            /\ (best = 0 \/ rules[i].priority < rules[best].priority)
            THEN BestFrom(rules, label, tags, i + 1, i)
            ELSE BestFrom(rules, label, tags, i + 1, best)

\* infer_role(label, tags) on the rules get_rules() returned
infer_role(rules, label, tags) ==
    LET best == BestFrom(rules, label, tags, 1, 0)
    IN IF best = 0 THEN NoRole ELSE rules[best].role

\* infer_role(label, tags) raises: its loop calls matches of every rule in
\* turn, so it raises as soon as one of those calls does
InferRoleRaises(rules, label, tags) ==
    \E i \in 1..Len(rules) : MatchesRaises(rules[i], label, tags)

\* a direct call of get_rules()
GetRulesCall ==
    /\ pc = "rules_idle"
    /\ rules_cache' = get_rules(rules_cache, rule_source)[2]
    /\ pc' = "rules_loaded"
    /\ UNCHANGED <<indexVars, m, frames, aligned, raised, healthInputs, moreVars,
                   rule_source, point, inferred>>

\* infer_role(point.label, point.tags), its get_rules() call included
InferRole ==
    /\ pc \in {"rules_idle", "rules_loaded"}
    /\ \E got \in {get_rules(rules_cache, rule_source)} :
          /\ rules_cache' = got[2]
          /\ IF InferRoleRaises(got[1], point.label, point.tags)
                THEN /\ raised' = TRUE
                     /\ pc' = "infer_raised"
                     /\ UNCHANGED inferred
                ELSE /\ inferred' = infer_role(got[1], point.label, point.tags)
                     /\ pc' = "inferred"
                     /\ UNCHANGED raised
    /\ UNCHANGED <<indexVars, m, frames, aligned, healthInputs, moreVars,
                   rule_source, point>>

\* rule specs a role_rules.json may hold
FileRuleSpecs ==
    { [role |-> "space_temp", priority |-> 4, name_regex |-> << >>,
       tags_all |-> {"zoneairtempsensor"}, tags_any |-> {}],
      [role |-> "flow", priority |-> 10, name_regex |-> << <<"space", "temp">> >>,
       tags_all |-> {}, tags_any |-> {}],
      [role |-> "space_temp_sp", priority |-> 4, name_regex |-> << >>,
       tags_all |-> {}, tags_any |-> {"SP", "zoneairtempsensor"}],
      [role |-> "damper", priority |-> Absent,
       name_regex |-> << <<"damper">>, <<"temp">> >>,
       tags_all |-> {}, tags_any |-> {}],
      [role |-> "reheat", priority |-> 10, name_regex |-> << <<"zone", "temp">> >>,
       tags_all |-> {"Zone"}, tags_any |-> {}],
      [role |-> "fan_cmd", priority |-> 10,
       name_regex |-> << <<"space", "temp">>, BadPattern >>,
       tags_all |-> {"sp"}, tags_any |-> {}] }

\* labels and tag lists infer_role is called with
PointLabels ==
    { <<"Space", " ", "Temp">>, <<"Zone", "Temp", " ", "SP">>, <<"vav", "1", "_", "fault">>,
      <<"supply", " ", "fan", " ", "speed">>, <<"heating", " ", "valve">> }

PointTags ==
    { {}, {"zoneAirTempSensor"}, {"zone", "sp"}, {"zoneAirTempSensor", "SP", "zone"},
      {"air", "flow", "zone"}, {"reheat"} }

InitRules ==
    /\ catalog = << >>
    /\ pos = 0
    /\ index = << >>
    /\ m = NewMetrics
    /\ pc = "rules_idle"
    /\ frames = << >>
    /\ aligned = << >>
    /\ raised = FALSE
    /\ zone_info = << >>
    /\ store = << >>
    /\ comfort_cfg = << >>
    /\ rule_source \in
          {NoRuleFile, [file |-> "malformed", specs |-> << >>]}
              \cup {[file |-> "ok", specs |-> ss] : ss \in SeqsUpTo(FileRuleSpecs, MaxRules)}
    /\ rules_cache = NotLoaded
    /\ point \in [label : PointLabels, tags : PointTags]
    /\ inferred = NoRole
    /\ MoreIdle

NextRules == GetRulesCall \/ InferRole

SpecRules == InitRules /\ [][NextRules]_vars

(***************************************************************************)
(* Idle values of the variables above, for the operations modelled below   *)
(***************************************************************************)
CoreIdle ==
    /\ catalog = << >>
    /\ pos = 0
    /\ index = << >>
    /\ m = NewMetrics
    /\ frames = << >>
    /\ aligned = << >>
    /\ raised = FALSE
    /\ zone_info = << >>
    /\ store = << >>
    /\ comfort_cfg = << >>
    /\ rule_source = NoRuleFile
    /\ rules_cache = << >>
    /\ point = << >>
    /\ inferred = NoRole

coreVars == <<catalog, pos, index, m, frames, aligned, raised, zone_info, store,
              comfort_cfg, rule_source, rules_cache, point, inferred>>

(***************************************************************************)
(* niagara_client/mqtt_history_ingest.py : name canonicalisation           *)
(* A name is a sequence of one-character strings.                          *)
(***************************************************************************)
\* longest name handed to niagara_canonical_name
MaxName == 4

\* characters for which str.isalnum() is False
NonAlnum == {"$", "_", " ", "-"}

\* ch.isalnum()
IsAlnum(ch) == ch \notin NonAlnum

\* str.lower() of one character
LowerCh(ch) ==
    CASE ch = "B" -> "b"
      [] ch = "D" -> "d"
      [] ch = "N" -> "n"
      [] OTHER -> ch

\* s.startswith(old)
StartsWith(s, old) ==
    /\ Len(s) >= Len(old)
    /\ SubSeq(s, 1, Len(old)) = old

\* s.replace(old, new): left to right, non-overlapping
RECURSIVE Replace(_, _, _)
Replace(s, old, new) ==
    IF Len(s) < Len(old) THEN s
    ELSE IF StartsWith(s, old)
            THEN new \o Replace(SubSeq(s, Len(old) + 1, Len(s)), old, new)
            ELSE <<Head(s)>> \o Replace(Tail(s), old, new)

\* "  " in s
HasDoubleSpace(s) == \E i \in 1..(Len(s) - 1) : s[i] = " " /\ s[i + 1] = " "

\* while "  " in s: s = s.replace("  ", " ")
RECURSIVE CollapseSpaces(_)
CollapseSpaces(s) ==
    IF HasDoubleSpace(s) THEN CollapseSpaces(Replace(s, <<" ", " ">>, <<" ">>)) ELSE s

\* s.strip(ch)
RECURSIVE Strip(_, _)
Strip(s, ch) ==
    IF s = << >> THEN s
    ELSE IF Head(s) = ch THEN Strip(Tail(s), ch)
    ELSE IF s[Len(s)] = ch THEN Strip(SubSeq(s, 1, Len(s) - 1), ch)
    ELSE s

\* str(name) of an argument that is not a string (None)
NotAString == <<"N", "o", "n", "e">>

\* the whitespace characters among those of the modelled names
Whitespace == {" ", "\t"}

\* s.strip(): leading and trailing whitespace removed
RECURSIVE StripWhitespace(_)
StripWhitespace(s) ==
    IF s = << >> THEN s
    ELSE IF Head(s) \in Whitespace THEN StripWhitespace(Tail(s))
    ELSE IF s[Len(s)] \in Whitespace THEN StripWhitespace(SubSeq(s, 1, Len(s) - 1))
    ELSE s

\* niagara_decode_name with the blanks collapsed by one replace instead of the
\* while loop
DecodeNameCollapseOnce(nm) ==
    LET s == Replace(Replace(nm, <<"$", "2", "0">>, <<" ">>), <<"$", "2", "d">>, <<"-">>)
    IN StripWhitespace(Replace(s, <<" ", " ">>, <<" ">>))

\* niagara_decode_name(name)
niagara_decode_name(nm) ==
    LET s == Replace(Replace(nm, <<"$", "2", "0">>, <<" ">>), <<"$", "2", "d">>, <<"-">>)
    IN StripWhitespace(CollapseSpaces(s))

\* the for loop of niagara_canonical_name from character i on: out, prev_is_alnum
RECURSIVE CanonLoop(_, _, _, _)
CanonLoop(s, i, out, prev_is_alnum) ==
    IF i > Len(s) THEN out
    ELSE IF IsAlnum(s[i])
            THEN CanonLoop(s, i + 1, Append(out, s[i]), TRUE)
            ELSE IF prev_is_alnum /\ (out = << >> \/ out[Len(out)] # "_")
                    THEN CanonLoop(s, i + 1, Append(out, "_"), FALSE)
                    ELSE CanonLoop(s, i + 1, out, FALSE)

\* the fallback key of an empty result
Unnamed == <<"u", "n", "n", "a", "m", "e", "d">>

\* the loop's result without .strip("_")
CanonicalNoStrip(nm) ==
    LET s == niagara_decode_name(nm)
        k == CanonLoop([i \in 1..Len(s) |-> LowerCh(s[i])], 1, << >>, FALSE)
    IN IF k = << >> THEN Unnamed ELSE k

\* niagara_canonical_name(name)
niagara_canonical_name(nm) ==
    LET s == niagara_decode_name(nm)
        k == Strip(CanonLoop([i \in 1..Len(s) |-> LowerCh(s[i])], 1, << >>, FALSE), "_")
    IN IF k = << >> THEN Unnamed ELSE k

\* the characters of the names tried
NameChars == {"a", "B", "2", "0", "d", "$", "_", " ", "-"}

\* the names tried: every string up to MaxName characters, and str(None)
Names == SeqsUpTo(NameChars, MaxName) \cup {NotAString}

\* key = niagara_canonical_name(name)
CanonicalName ==
    /\ pc = "canon_idle"
    /\ canon_key' = niagara_canonical_name(canon_name)
    /\ pc' = "canon_once"
    /\ UNCHANGED <<coreVars, canon_name, canon_rekey, cycleVars, threadVars, batchVars, lateVars>>

\* rekey = niagara_canonical_name(key)
CanonicalAgain ==
    /\ pc = "canon_once"
    /\ canon_rekey' = niagara_canonical_name(canon_key)
    /\ pc' = "canon_twice"
    /\ UNCHANGED <<coreVars, canon_name, canon_key, cycleVars, threadVars, batchVars, lateVars>>

InitCanon ==
    /\ CoreIdle
    /\ pc = "canon_idle"
    /\ canon_name \in Names
    /\ canon_key = << >>
    /\ canon_rekey = << >>
    /\ CycleIdle
    /\ ThreadIdle
    /\ BatchIdle
    /\ LateIdle

NextCanon == CanonicalName \/ CanonicalAgain

SpecCanon == InitCanon /\ [][NextCanon]_vars

(***************************************************************************)
(* analytics/rtu.py : on/off cycle walk of _compute_binary_cycles          *)
(* Timestamps are seconds.                                                 *)
(***************************************************************************)
\* most rows of a fan or cooling status series
MaxCycleRows == 4

\* threshold: float = 0.5, as twice its value
ThresholdTimes2 == 1

\* min_cycle_minutes: float = 10.0
min_cycle_minutes == 10

\* on_start: Optional[datetime] = None
NoStart == -1

\* on = df["value"] > threshold, for one row
IsOn(row) == row.value * 2 > ThresholdTimes2

\* dur_min < min_cycle_minutes, with dur_min = (t - on_start).total_seconds() / 60.0
IsShortAtMost(t, on_start) == RLe(R(t - on_start, 60), RInt(min_cycle_minutes))

IsShort(t, on_start) == RLt(R(t - on_start, 60), RInt(min_cycle_minutes))

\* the locals after the statements that precede the loop (df is not empty)
SeedWalk(df) ==
    LET sorted == SortValues(df)
    IN [df |-> sorted,
        i |-> 2,
        samples |-> Len(sorted),
        on_pct |-> Pct(Len(SelectSeq(sorted, IsOn)), Len(sorted)),
        short_cycles |-> 0,
        prev_state |-> IsOn(sorted[1]),
        on_start |-> IF IsOn(sorted[1]) THEN sorted[1].timestamp ELSE NoStart]

\* one iteration of `for t, state in zip(ts.iloc[1:], on.iloc[1:])`
WalkOne(w) ==
    LET t     == w.df[w.i].timestamp
        state == IsOn(w.df[w.i])
    IN IF state = w.prev_state THEN [w EXCEPT !.i = w.i + 1]
       ELSE IF w.prev_state /\ ~state
               THEN [w EXCEPT !.i = w.i + 1,
                              !.short_cycles =
                                  IF w.on_start # NoStart /\ IsShort(t, w.on_start)
                                      THEN w.short_cycles + 1 ELSE w.short_cycles,
                              !.on_start = NoStart,
                              !.prev_state = state]
               ELSE [w EXCEPT !.i = w.i + 1, !.on_start = t, !.prev_state = state]

\* the result of the early return on an empty frame: short_cycle_count is None
NoCount == -1

EmptyCycles ==
    [df |-> << >>, i |-> 2, samples |-> 0, on_pct |-> NoneNum, short_cycles |-> NoCount,
     prev_state |-> FALSE, on_start |-> NoStart]

\* _compute_binary_cycles(df) up to the loop
BinaryCyclesStart ==
    /\ pc = "cycles_idle"
    /\ walk' = IF cyc_df = << >> THEN EmptyCycles ELSE SeedWalk(cyc_df)
    /\ pc' = IF cyc_df = << >> THEN "cycles_done" ELSE "cycles_walk"
    /\ UNCHANGED <<coreVars, canonVars, cyc_df, threadVars, batchVars, lateVars>>

\* the next sample of the loop
WalkStep ==
    /\ pc = "cycles_walk"
    /\ walk.i <= Len(walk.df)
    /\ walk' = WalkOne(walk)
    /\ UNCHANGED <<coreVars, pc, canonVars, cyc_df, threadVars, batchVars, lateVars>>

\* the loop is exhausted: return samples, on_pct, short_cycle_count
WalkReturn ==
    /\ pc = "cycles_walk"
    /\ walk.i > Len(walk.df)
    /\ pc' = "cycles_done"
    /\ UNCHANGED <<coreVars, canonVars, cycleVars, threadVars, batchVars, lateVars>>

\* sample times: 599, 600 and 601 seconds apart occur among them
CycleTimes == {0, 1, 600, 601, 1200}

CycleRows == [timestamp : CycleTimes, value : {0, 1}]

InitCycles ==
    /\ CoreIdle
    /\ CanonIdle
    /\ ThreadIdle
    /\ BatchIdle
    /\ LateIdle
    /\ pc = "cycles_idle"
    /\ cyc_df \in SeqsUpTo(CycleRows, MaxCycleRows)
    /\ walk = << >>

NextCycles == BinaryCyclesStart \/ WalkStep \/ WalkReturn

SpecCycles == InitCycles /\ [][NextCycles]_vars

(***************************************************************************)
(* analytics/zone_health.py, analytics/comfort.py : the occupied window of *)
(* the comfort and reheat-waste computors.  A sample is ingested with a    *)
(* wall-clock time and a UTC offset ('2025-11-29 00:30:00.249-0700'), both *)
(* in seconds here; the store keeps it as a UTC timestamp.                 *)
(***************************************************************************)
\* most samples of one series
MaxOccRows == 2

\* sqlite_store._to_utc_iso(ts) of an aware datetime: ts.astimezone(timezone.utc)
_to_utc_iso(local, utcoffset) == local - utcoffset

\* compute_zone_comfort(df, comfort_cfg) on the merged (temp, setpoint) rows:
\* (samples, within_band_pct, mean_error_degF)
compute_zone_comfort(df, cfg) ==
    LET occupied == Occupied(df, cfg)
        Error(row) == row.l.value - row.r
        total == Len(occupied)
        within_band == Count(LAMBDA row : Abs(Error(row)) <= cfg.comfort_band_degF,
                             occupied)
    IN IF df = << >> THEN <<0, NoneNum, NoneNum>>
       ELSE IF occupied = << >> THEN <<0, NoneNum, NoneNum>>
       ELSE <<total, Pct(within_band, total), R(SumOf(Error, occupied), total)>>

\* compute_zone_health's comfort block alone
ComfortMetricsCall ==
    /\ pc = "computor_idle"
    /\ \E res \in {_compute_comfort_metrics(frames.space_temp, frames.space_temp_sp,
                                            comfort_cfg)} :
          m' = [m EXCEPT !.comfort_samples = res[1],
                         !.comfort_within_band_pct = res[2],
                         !.comfort_mean_error_degF = res[3]]
    /\ aligned' = ComfortMerged(frames.space_temp, frames.space_temp_sp)
    /\ raised' = ComfortRaises(frames.space_temp, frames.space_temp_sp)
    /\ pc' = "comfort_computed"
    /\ UNCHANGED <<indexVars, frames, healthInputs, moreVars, ruleVars>>

\* compute_zone_health's reheat-waste block alone
ReheatMetricsCall ==
    /\ pc = "computor_idle"
    /\ m' = [m EXCEPT !.reheat_waste_pct =
                _compute_reheat_waste_metrics(frames.reheat, frames.space_temp,
                                              frames.space_temp_sp, comfort_cfg)]
    /\ aligned' = ReheatMerged(frames.reheat, frames.space_temp, frames.space_temp_sp)
    /\ raised' = ReheatRaises(frames.reheat, frames.space_temp, frames.space_temp_sp)
    /\ pc' = "reheat_computed"
    /\ UNCHANGED <<indexVars, frames, healthInputs, moreVars, ruleVars>>

\* server.debug_comfort_zone_pair: 404 on an empty series, else the nearest join
\* (tolerance 30 by default), dropna, and compute_zone_comfort on the result
DebugComfortZonePair ==
    /\ pc = "computor_idle"
    /\ IF frames.space_temp = << >> \/ frames.space_temp_sp = << >>
          THEN /\ pc' = "debug_comfort_404"
               /\ UNCHANGED <<m, aligned>>
          ELSE /\ pc' = "debug_comfort_computed"
               /\ aligned' = DropNa(MergeAsof(SortValues(frames.space_temp),
                                              SortValues(frames.space_temp_sp),
                                              MERGE_TOLERANCE_SECONDS))
               /\ \E res \in {compute_zone_comfort(aligned', comfort_cfg)} :
                     m' = [m EXCEPT !.comfort_samples = res[1],
                                    !.comfort_within_band_pct = res[2],
                                    !.comfort_mean_error_degF = res[3]]
    /\ UNCHANGED <<indexVars, frames, raised, healthInputs, moreVars, ruleVars>>

\* wall-clock sample times: 06:59:59, 07:00:00, 18:00:00, 18:00:01 and 07:00:00
\* of the next day
WallTimes == {25199, 25200, 64800, 64801, 111600}

\* UTC offsets of the station's clock: +0000 and -0700
UtcOffsets == {0, -25200}

\* the sample times of a series: increasing, as query_series orders them
SampleTimes ==
    {s \in SeqsUpTo(WallTimes, MaxOccRows) : \A i \in 1..(Len(s) - 1) : s[i] < s[i + 1]}

\* space temperatures: setpoint - 2, setpoint + 1 and setpoint + 3
TempValues == {68, 71, 73}

\* the space temperature setpoint
SetpointValue == 70

\* reheat valve outputs in percent: at the "on" threshold and above it
ReheatValues == {10, 11}

\* the stored rows of a series sampled at wall-clock times s with UTC offset off
\* (field utcoffset is carried for the properties only)
SeriesRows(s, off, values) ==
    [i \in 1..Len(s) |-> [timestamp |-> _to_utc_iso(s[i], off),
                          value |-> values[i],
                          utcoffset |-> off]]

\* the [07:00, 18:00] window with a band of 2 degF
OccupiedConfig ==
    [occupied_start |-> <<7, 0>>, occupied_end |-> <<18, 0>>, comfort_band_degF |-> 2]

\* the frames _query_series_df returned for a zone whose three series were
\* sampled together
InitComfort ==
    /\ catalog = << >>
    /\ pos = 0
    /\ index = << >>
    /\ m = NewMetrics
    /\ pc = "computor_idle"
    /\ \E s \in SampleTimes, off \in UtcOffsets :
          \E temps \in [1..Len(s) -> TempValues], reheats \in [1..Len(s) -> ReheatValues] :
             frames = [space_temp |-> SeriesRows(s, off, temps),
                       space_temp_sp |-> SeriesRows(s, off, [i \in 1..Len(s) |-> SetpointValue]),
                       reheat |-> SeriesRows(s, off, reheats)]
    /\ aligned = << >>
    /\ raised = FALSE
    /\ zone_info = << >>
    /\ store = << >>
    /\ comfort_cfg = OccupiedConfig
    /\ rule_source = NoRuleFile
    /\ rules_cache = << >>
    /\ point = << >>
    /\ inferred = NoRole
    /\ MoreIdle

NextComfort == ComfortMetricsCall \/ ReheatMetricsCall \/ DebugComfortZonePair

SpecComfort == InitComfort /\ [][NextComfort]_vars

(***************************************************************************)
(* analytics/role_rules.py : get_rules() called from several threads.      *)
(* functools.lru_cache looks the key up, calls the function on a miss      *)
(* without holding a lock (the body opens and reads a file, so another     *)
(* thread can run meanwhile), and stores the result afterwards unless the  *)
(* key has been stored in the meantime; the caller gets the result of its  *)
(* own call either way.  A rule list is [id, rules]: id numbers the        *)
(* execution of get_rules' body that built the list.                       *)
(***************************************************************************)
\* threads that call get_rules
MaxThreads == 2

Threads == 1..MaxThreads

\* calls of get_rules one thread makes
MaxCalls == 2

\* the cache lookup of lru_cache's wrapper finds the entry: return it
CacheHit(t) ==
    /\ thread_pc[t].at = "idle"
    /\ thread_pc[t].calls < MaxCalls
    /\ rules_cache # NotLoaded
    /\ thread_rules' = [thread_rules EXCEPT ![t] = rules_cache]
    /\ thread_pc' = [thread_pc EXCEPT ![t] = [at |-> "idle", calls |-> @.calls + 1]]
    /\ UNCHANGED <<indexVars, m, pc, frames, aligned, raised, healthInputs, rule_source,
                   rules_cache, point, inferred, canonVars, cycleVars, load_count,
                   batchVars, lateVars>>

\* the lookup finds nothing: the wrapper calls get_rules' body
CacheMiss(t) ==
    /\ thread_pc[t].at = "idle"
    /\ thread_pc[t].calls < MaxCalls
    /\ rules_cache = NotLoaded
    /\ thread_pc' = [thread_pc EXCEPT ![t] = [at |-> "in_body", calls |-> @.calls]]
    /\ UNCHANGED <<indexVars, m, pc, frames, aligned, raised, healthInputs, ruleVars,
                   canonVars, cycleVars, thread_rules, load_count, batchVars, lateVars>>

\* the body of get_rules() returns (lines 399-412); the wrapper stores the
\* result unless the key is in the cache by now, and returns the result
BodyReturn(t) ==
    /\ thread_pc[t].at = "in_body"
    /\ load_count' = load_count + 1
    /\ \E made \in {<<[id |-> load_count + 1, rules |-> LoadRules(rule_source)]>>} :
          /\ thread_rules' = [thread_rules EXCEPT ![t] = made]
          /\ rules_cache' = IF rules_cache = NotLoaded THEN made ELSE rules_cache
    /\ thread_pc' = [thread_pc EXCEPT ![t] = [at |-> "idle", calls |-> @.calls + 1]]
    /\ UNCHANGED <<indexVars, m, pc, frames, aligned, raised, healthInputs, rule_source,
                   point, inferred, canonVars, cycleVars, batchVars, lateVars>>

InitThreads ==
    /\ catalog = << >>
    /\ pos = 0
    /\ index = << >>
    /\ m = NewMetrics
    /\ pc = "threads"
    /\ frames = << >>
    /\ aligned = << >>
    /\ raised = FALSE
    /\ zone_info = << >>
    /\ store = << >>
    /\ comfort_cfg = << >>
    /\ rule_source \in
          {NoRuleFile, [file |-> "malformed", specs |-> << >>]}
              \cup {[file |-> "ok", specs |-> ss] : ss \in SeqsUpTo(FileRuleSpecs, 1)}
    /\ rules_cache = NotLoaded
    /\ point = << >>
    /\ inferred = NoRole
    /\ CanonIdle
    /\ CycleIdle
    /\ thread_pc = [t \in Threads |-> [at |-> "idle", calls |-> 0]]
    /\ thread_rules = [t \in Threads |-> NotLoaded]
    /\ load_count = 0
    /\ BatchIdle
    /\ LateIdle

NextThreads == \E t \in Threads : CacheHit(t) \/ CacheMiss(t) \/ BodyReturn(t)

SpecThreads == InitThreads /\ [][NextThreads]_vars

(***************************************************************************)
(* api/server.py : summary_building_health                                 *)
(***************************************************************************)
\* build_zone_pair_index(): the for loop over all rows of series, from index ix
RECURSIVE build_zone_pair_index(_, _)
build_zone_pair_index(series, ix) ==
    IF series = << >> THEN ix
    ELSE build_zone_pair_index(Tail(series), ProcessRow(ix, Head(series)))

\* a Python list / dict value; only the type matters to what is modelled of a
\* list (the order of index.values() is read by no modelled caller)
PyList(items) == [type |-> "list", items |-> items]

PyDict(items) == [type |-> "dict", items |-> items]

\* zone_pairs_as_dicts(): [asdict(zp) for zp in index.values()]
zone_pairs_as_dicts(series) ==
    LET ix == build_zone_pair_index(series, << >>)
    IN PyList({ix[k] : k \in DOMAIN ix})

\* pairs_by_station.get(station) raises AttributeError: 'list' object has no
\* attribute 'get'
GetRaises(pairs_by_station) == pairs_by_station.type # "dict"

\* pairs_by_station.get(station) on a dict station -> {zone_root: zone_info}
GetZones(pairs_by_station, station) ==
    IF station \in DOMAIN pairs_by_station.items
       THEN pairs_by_station.items[station]
       ELSE << >>

\* status_order.get(m.status, 3)
status_order(status) ==
    CASE status = "critical" -> 0
      [] status = "warning" -> 1
      [] status = "ok" -> 2
      [] OTHER -> 3

\* sort_key(a) <= sort_key(b): tuples (status tier, score or float("inf"))
SortKeyLe(a, b) ==
    \/ status_order(a.status) < status_order(b.status)
    \/ /\ status_order(a.status) = status_order(b.status)
       /\ IF b.overall_score = NoneNum THEN TRUE
          ELSE IF a.overall_score = NoneNum THEN FALSE
          ELSE RLe(a.overall_score, b.overall_score)

\* list.sort(key=sort_key) is stable: each element goes after every element
\* already placed whose key is not greater
RECURSIVE InsertStable(_, _)
InsertStable(x, sorted) ==
    IF sorted = << >> THEN <<x>>
    ELSE IF SortKeyLe(sorted[Len(sorted)], x) THEN Append(sorted, x)
    ELSE Append(InsertStable(x, SubSeq(sorted, 1, Len(sorted) - 1)), sorted[Len(sorted)])

RECURSIVE SortResults(_)
SortResults(rs) ==
    IF rs = << >> THEN << >>
    ELSE InsertStable(rs[Len(rs)], SortResults(SubSeq(rs, 1, Len(rs) - 1)))

\* what compute_zone_health can report for a zone: status and overall_score
ZoneOutcomes ==
    [status : {"critical", "warning", "ok", "no_data"},
     overall_score : {NoneNum, RInt(40), RInt(90)}]

\* GET /summary/building_health?station=...: the whole handler
summary_building_health ==
    /\ pc = "batch_idle"
    /\ \E pairs_by_station \in {zone_pairs_as_dicts(catalog)} :
          IF GetRaises(pairs_by_station)
             THEN /\ raised' = TRUE
                  /\ pc' = "batch_raised"
                  /\ UNCHANGED <<results, response>>
             ELSE LET zones == GetZones(pairs_by_station, request.station)
                  IN IF zones = << >>
                        THEN /\ pc' = "batch_404"
                             /\ UNCHANGED <<raised, results, response>>
                        ELSE \E order \in [1..Cardinality(DOMAIN zones) -> DOMAIN zones],
                                out \in [DOMAIN zones -> ZoneOutcomes] :
                                /\ \A i, j \in DOMAIN order : i # j => order[i] # order[j]
                                /\ results' = [i \in DOMAIN order |->
                                                 [zone_root |-> order[i],
                                                  status |-> out[order[i]].status,
                                                  overall_score |-> out[order[i]].overall_score]]
                                /\ response' = SortResults(results')
                                /\ pc' = "batch_returned"
                                /\ UNCHANGED raised
    /\ UNCHANGED <<indexVars, m, frames, aligned, healthInputs, ruleVars,
                   canonVars, cycleVars, threadVars, lateVars, request>>

\* a request for a station, on a store whose catalog is any list of rows
InitBatch ==
    /\ catalog \in SeqsUpTo(BuilderRows, MaxCatalog)
    /\ pos = 0
    /\ index = << >>
    /\ m = NewMetrics
    /\ pc = "batch_idle"
    /\ frames = << >>
    /\ aligned = << >>
    /\ raised = FALSE
    /\ zone_info = << >>
    /\ store = << >>
    /\ comfort_cfg = << >>
    /\ rule_source = NoRuleFile
    /\ rules_cache = << >>
    /\ point = << >>
    /\ inferred = NoRole
    /\ CanonIdle
    /\ CycleIdle
    /\ ThreadIdle
    /\ LateIdle
    /\ results = << >>
    /\ response = << >>
    /\ request \in [station : Stations]

NextBatch == summary_building_health

SpecBatch == InitBatch /\ [][NextBatch]_vars

(***************************************************************************)
(* analytics/flow.py and the flow + damper block of zone_health.py, called *)
(* on their own with frames of (timestamp, value) rows.                    *)
(***************************************************************************)
\* most rows of a flow or flow setpoint series
MaxFlowRows == 2

\* pd.merge_asof raises MergeError("tolerance must be positive") on a negative
\* tolerance; compute_flow_tracking reaches the join with two non-empty frames
FlowTrackingRaises(df_flow, df_flow_sp, cfg) ==
    /\ df_flow # << >>
    /\ df_flow_sp # << >>
    /\ cfg.merge_tolerance_seconds < 0

\* compute_flow_tracking(frames.flow, frames.flow_sp, flow_cfg)
FlowTrackingCall ==
    /\ pc = "flow_idle"
    /\ IF FlowTrackingRaises(frames.flow, frames.flow_sp, flow_cfg)
          THEN /\ raised' = TRUE
               /\ pc' = "flow_raised"
               /\ UNCHANGED <<aligned, flow_metrics>>
          ELSE /\ \E res \in {compute_flow_tracking(frames.flow, frames.flow_sp, flow_cfg)} :
                     flow_metrics' = res
               /\ aligned' = FlowMerged(frames.flow, frames.flow_sp,
                                        flow_cfg.merge_tolerance_seconds)
               /\ pc' = "flow_tracked"
               /\ UNCHANGED raised
    /\ UNCHANGED <<indexVars, m, frames, healthInputs, ruleVars, canonVars, cycleVars,
                   threadVars, batchVars, flow_cfg, decodeVars,
                   storeVars, ingestVars>>

\* compute_zone_health's flow + damper block alone (it builds its own
\* FlowTrackingConfig)
FlowDamperMetricsCall ==
    /\ pc = "flow_idle"
    /\ \E res \in {_compute_flow_and_damper_metrics(frames.flow, frames.flow_sp,
                                                      frames.damper)} :
          m' = [m EXCEPT !.flow_samples = res[1],
                         !.flow_within_band_pct = res[2],
                         !.mean_flow_error_cfm = res[3],
                         !.damper_high_open_low_flow_pct = res[4],
                         !.damper_closed_high_flow_pct = res[5]]
    /\ aligned' = DamperMerged(frames.damper, frames.flow, frames.flow_sp)
    /\ raised' = \/ FlowRaises(frames.flow, frames.flow_sp)
                 \/ DamperRaises(frames.damper, frames.flow, frames.flow_sp)
    /\ pc' = "damper_computed"
    /\ UNCHANGED <<indexVars, frames, healthInputs, ruleVars, moreVars>>

\* sample times in seconds: one minute apart, farther than the join tolerance
FlowTimes == {0, 60, 120}

\* increasing sample times, as _query_series_df sorts them
FlowSampleTimes ==
    {s \in SeqsUpTo(FlowTimes, MaxFlowRows) : \A i \in 1..(Len(s) - 1) : s[i] < s[i + 1]}

\* airflow in cfm: none, and just outside / on the 10 percent band of 10
FlowValues == {0, 8, 9}

\* airflow setpoints in cfm
FlowSetpoints == {0, 10}

\* the frames of a series sampled at increasing times with the given values
FlowFrames(values) ==
    UNION { {[i \in 1..Len(s) |-> [timestamp |-> s[i], value |-> v[i]]] :
                v \in [1..Len(s) -> values]} : s \in FlowSampleTimes }

\* damper position series in percent open
DamperFrames ==
    { << >>,
      << [timestamp |-> 0, value |-> 0] >>,
      << [timestamp |-> 0, value |-> 0], [timestamp |-> 60, value |-> 100] >>,
      << [timestamp |-> 0, value |-> 100], [timestamp |-> 60, value |-> 0] >> }

\* FlowTrackingConfig values a caller passes: the defaults, an absolute
\* tolerance above the percentage tolerance of setpoint 10 and one below it, a
\* negative percentage tolerance and a negative merge tolerance
FlowConfigs ==
    { FlowTrackingConfig,
      [FlowTrackingConfig EXCEPT !.abs_cfm_tolerance = 2],
      [FlowTrackingConfig EXCEPT !.pct_tolerance = R(3, 10), !.abs_cfm_tolerance = 1],
      [FlowTrackingConfig EXCEPT !.pct_tolerance = R(-1, 10)],
      [FlowTrackingConfig EXCEPT !.merge_tolerance_seconds = -30] }

InitFlow ==
    /\ catalog = << >>
    /\ pos = 0
    /\ index = << >>
    /\ m = NewMetrics
    /\ pc = "flow_idle"
    /\ frames \in [flow : FlowFrames(FlowValues), flow_sp : FlowFrames(FlowSetpoints),
                   damper : DamperFrames]
    /\ aligned = << >>
    /\ raised = FALSE
    /\ zone_info = << >>
    /\ store = << >>
    /\ comfort_cfg = << >>
    /\ rule_source = NoRuleFile
    /\ rules_cache = << >>
    /\ point = << >>
    /\ inferred = NoRole
    /\ CanonIdle
    /\ CycleIdle
    /\ ThreadIdle
    /\ BatchIdle
    /\ flow_cfg \in FlowConfigs
    /\ flow_metrics = << >>
    /\ DecodeIdle
    /\ StoreIdle
    /\ IngestIdle

NextFlow == FlowTrackingCall \/ FlowDamperMetricsCall

SpecFlow == InitFlow /\ [][NextFlow]_vars

(***************************************************************************)
(* niagara_client/mqtt_history_ingest.py : niagara_decode_name applied to  *)
(* its own result                                                          *)
(***************************************************************************)
\* longest raw label handed to niagara_decode_name
MaxLabel == 5

\* the characters of a raw label: those of the two escapes, the blank the
\* function collapses, a tab that only strip() removes, and a plain letter
LabelChars == {"$", "2", "0", "d", " ", "\t", "a"}

\* the raw labels: niagara_canonical_name converts its argument to a str
\* before the call, so that each is a string
RawLabels == SeqsUpTo(LabelChars, MaxLabel) \cup {NotAString}

\* niagara_decode_name(name) of a raw label
DecodeName ==
    /\ pc = "decode_idle"
    /\ decoded' = niagara_decode_name(raw_label)
    /\ pc' = "decoded"
    /\ UNCHANGED <<coreVars, canonVars, cycleVars, threadVars, batchVars, flowVars,
                   storeVars, ingestVars, raw_label, redecoded>>

\* niagara_decode_name(name) of the label the first call returned
DecodeAgain ==
    /\ pc = "decoded"
    /\ redecoded' = niagara_decode_name(decoded)
    /\ pc' = "redecoded"
    /\ UNCHANGED <<coreVars, canonVars, cycleVars, threadVars, batchVars, flowVars,
                   storeVars, ingestVars, raw_label, decoded>>

InitDecode ==
    /\ CoreIdle
    /\ pc = "decode_idle"
    /\ CanonIdle
    /\ CycleIdle
    /\ ThreadIdle
    /\ BatchIdle
    /\ FlowIdle
    /\ raw_label \in RawLabels
    /\ decoded = << >>
    /\ redecoded = << >>
    /\ StoreIdle
    /\ IngestIdle

NextDecode == DecodeName \/ DecodeAgain

SpecDecode == InitDecode /\ [][NextDecode]_vars

(***************************************************************************)
(* store/history_store.py : the in-memory history store                    *)
(* A sample is a record [station_name, history_id, timestamp, value]; a    *)
(* timestamp is an instant, counted in sample periods.                     *)
(***************************************************************************)
\* most samples handed to one add_batch call
MaxBatch == 2

\* latest instant of a sample
MaxStoreTime == 3

\* _MAX_PER_SERIES (1000 in the source), scaled so that a series of
\* MaxStoreTime instants can go over the cap
_MAX_PER_SERIES == 2

\* series[s.timestamp] = s
PutSample(series, s) ==
    IF s.timestamp \in DOMAIN series
       THEN [series EXCEPT ![s.timestamp] = s]
       ELSE series @@ (s.timestamp :> s)

\* the key add_batch files a sample under
SeriesKey(s) == <<niagara_canonical_name(s.station_name),
                  niagara_canonical_name(s.history_id)>>

\* the keys of the samples of a batch, in the order of the batch
SeriesKeys(samples) == [i \in 1..Len(samples) |-> SeriesKey(samples[i])]

\* _store[key][s.timestamp] = s, _store being a defaultdict(dict)
StoreSample(st, key, s) ==
    IF key \in DOMAIN st
       THEN [st EXCEPT ![key] = PutSample(@, s)]
       ELSE st @@ (key :> (s.timestamp :> s))

\* the for loop of add_batch over the samples from the i-th on, keys[i]
\* being the key of samples[i]
RECURSIVE StoreSamples(_, _, _, _)
StoreSamples(st, samples, keys, i) ==
    IF i > Len(samples) THEN st
    ELSE StoreSamples(StoreSample(st, keys[i], samples[i]), samples, keys, i + 1)

\* sorted(series.keys())
RECURSIVE SortedTimestamps(_)
SortedTimestamps(S) ==
    IF S = {} THEN << >>
    ELSE LET lo == CHOOSE x \in S : \A y \in S : x <= y
         IN <<lo>> \o SortedTimestamps(S \ {lo})

\* to_drop taken from the other end of the sorted timestamps
ToDropNewest(series) ==
    LET timestamps == SortedTimestamps(DOMAIN series)
    IN {timestamps[i] : i \in (_MAX_PER_SERIES + 1)..Len(timestamps)}

\* sorted(series.keys())[:-_MAX_PER_SERIES], as a set
ToDrop(series) ==
    LET timestamps == SortedTimestamps(DOMAIN series)
    IN {timestamps[i] : i \in 1..(Len(timestamps) - _MAX_PER_SERIES)}

\* the cap on one touched series: del series[ts] for ts in to_drop
EnforceCap(series) ==
    IF Cardinality(DOMAIN series) > _MAX_PER_SERIES
       THEN [ts \in (DOMAIN series) \ ToDrop(series) |-> series[ts]]
       ELSE series

\* the second for loop of add_batch: the cap on every touched series
EnforceCaps(filled, touched) ==
    [key \in DOMAIN filled |->
        IF key \in touched THEN EnforceCap(filled[key]) ELSE filled[key]]

\* add_batch(samples) on the store st, keys being SeriesKeys(samples)
add_batch(st, samples, keys) ==
    IF samples = << >> THEN st
    ELSE EnforceCaps(StoreSamples(st, samples, keys, 1), Range(keys))

\* station names of the samples: the first two have one canonical name
StoreStations == {<<"B">>, <<"b">>, <<"d">>}

\* history ids of the samples
StoreHistories == {<<"n">>}

\* the samples a batch is made of
StoreSamplesTried ==
    [station_name : StoreStations, history_id : StoreHistories,
     timestamp : 1..MaxStoreTime, value : {70}]

\* history_store.add_batch(samples); added records what was handed in
AddBatch(samples) ==
    /\ pc = "store_ready"
    /\ \E keys \in {SeriesKeys(samples)} :
          /\ _store' = add_batch(_store, samples, keys)
          /\ added' = StoreSamples(added, samples, keys, 1)
    /\ UNCHANGED <<coreVars, pc, canonVars, cycleVars, threadVars, batchVars, flowVars,
                   decodeVars, ingestVars>>

InitStore ==
    /\ CoreIdle
    /\ pc = "store_ready"
    /\ CanonIdle
    /\ CycleIdle
    /\ ThreadIdle
    /\ BatchIdle
    /\ FlowIdle
    /\ DecodeIdle
    /\ StoreIdle
    /\ IngestIdle

NextStore == \E samples \in SeqsUpTo(StoreSamplesTried, MaxBatch) : AddBatch(samples)

SpecStore == InitStore /\ [][NextStore]_vars

(***************************************************************************)
(* niagara_client/mqtt_history_ingest.py : history frames arriving by MQTT *)
(* JSON values are named by their text; a parseable timestamp text stands  *)
(* for an instant.                                                         *)
(***************************************************************************)
\* most frames of one MQTT message
MaxFrames == 2

\* most rows of the historyData of one frame
MaxRows == 2

\* row.get("timestamp"): absent, in neither format, or in one of the two
RowTimestamps ==
    {"null", "garbled", "2025-11-29 00:30:00.249-0700", "2025-11-29 00:45:00-0700"}

\* row.get("value"): absent, text that is no number, an integer too large
\* for a float, or a number
RowValues == {"null", "abc", "1e400 as an integer", "70"}

\* a historyData entry that is no JSON object
NotAnObjectRow == [json |-> "number", timestamp |-> "null", value |-> "null"]

\* the historyData entries tried
Rows == [json : {"object"}, timestamp : RowTimestamps, value : RowValues]
            \cup {NotAnObjectRow}

\* _parse_timestamp(ts) raises ValueError: neither format fits
ParseTimestampRaises(ts) ==
    ts \notin {"2025-11-29 00:30:00.249-0700", "2025-11-29 00:45:00-0700"}

\* _parse_timestamp(ts): the instant, in quarters of an hour after midnight
_parse_timestamp(ts) ==
    CASE ts = "2025-11-29 00:30:00.249-0700" -> 2
      [] ts = "2025-11-29 00:45:00-0700" -> 3

\* float(value): its result, or the exception it raises
FloatOf(value) ==
    CASE value = "70" -> [raises |-> "no", val |-> 70]
      [] value = "abc" -> [raises |-> "ValueError", val |-> 0]
      [] value = "1e400 as an integer" -> [raises |-> "OverflowError", val |-> 0]
      [] OTHER -> [raises |-> "TypeError", val |-> 0]

\* the body of decode_history_frame's loop for one row: the row is skipped
\* by a continue, yields a sample, or an exception leaves the function
RowOutcome(row) ==
    IF row.json # "object" THEN "raise"                  \* row.get: AttributeError
    ELSE IF row.timestamp = "null" THEN "continue"
    ELSE IF ParseTimestampRaises(row.timestamp) THEN "continue"
    ELSE IF row.value = "null" THEN "continue"
    ELSE IF FloatOf(row.value).raises \in {"TypeError", "ValueError"} THEN "continue"
    ELSE IF FloatOf(row.value).raises # "no" THEN "raise"
    ELSE "append"

\* HistorySample(station_name=..., history_id=..., timestamp=ts, value=val_float)
SampleOfRow(frame, row) ==
    [station_name |-> frame.stationName, history_id |-> frame.history,
     timestamp |-> _parse_timestamp(row.timestamp), value |-> FloatOf(row.value).val]

\* _validate_history_frame(msg) raises ValueError
ValidateRaises(frame) ==
    \/ frame.messageType # "history"
    \/ frame.historyData = << >>

\* the for loop of decode_history_frame from row i on
RECURSIVE DecodeRows(_, _, _)
DecodeRows(frame, i, samples) ==
    IF i > Len(frame.historyData) THEN [raised |-> FALSE, samples |-> samples]
    ELSE \* the three outcomes of the loop body
         CASE RowOutcome(frame.historyData[i]) = "raise" ->
                  [raised |-> TRUE, samples |-> << >>]
           [] RowOutcome(frame.historyData[i]) = "continue" ->
                  DecodeRows(frame, i + 1, samples)
           [] OTHER ->
                  DecodeRows(frame, i + 1,
                             Append(samples, SampleOfRow(frame, frame.historyData[i])))

\* decode_history_frame(msg): the samples, or raised
decode_history_frame(frame) ==
    IF ValidateRaises(frame) THEN [raised |-> TRUE, samples |-> << >>]
    ELSE DecodeRows(frame, 1, << >>)

\* the list branch of _on_mqtt_message from frame idx on: all_samples
RECURSIVE ExtendAll(_, _, _)
ExtendAll(items, idx, all_samples) ==
    IF idx > Len(items) THEN all_samples
    ELSE IF items[idx].json # "object"
            THEN ExtendAll(items, idx + 1, all_samples)
    ELSE IF decode_history_frame(items[idx]).raised
            THEN ExtendAll(items, idx + 1, all_samples)
    ELSE ExtendAll(items, idx + 1,
                   all_samples \o decode_history_frame(items[idx]).samples)

\* all_samples of _on_mqtt_message, empty where it returns early
AllSamples(data) ==
    CASE data.root = "list" -> ExtendAll(data.items, 1, << >>)
      [] data.root = "object" ->
             IF decode_history_frame(data.items[1]).raised
                THEN << >>
                ELSE decode_history_frame(data.items[1]).samples
      [] OTHER -> << >>

\* a history frame with the given rows
HistoryFrame(rows) ==
    [json |-> "object", messageType |-> "history", stationName |-> <<"b">>,
     history |-> <<"n">>, historyData |-> rows]

\* the frames tried: history frames, a frame of another message type, and a
\* list entry that is no JSON object
Frames ==
    {HistoryFrame(rows) : rows \in SeqsUpTo(Rows, MaxRows)}
        \cup {[HistoryFrame(<< >>) EXCEPT !.messageType = "alarm"],
              [HistoryFrame(<< >>) EXCEPT !.json = "number"]}

\* json.loads(payload): a list of frames, one frame, another JSON value, or
\* text that is no JSON
Payloads ==
    {[root |-> "list", items |-> fs] : fs \in SeqsUpTo(Frames, MaxFrames)}
        \cup {[root |-> "object", items |-> <<f>>] : f \in Frames \ {[HistoryFrame(<< >>) EXCEPT !.json = "number"]}}
        \cup {[root |-> r, items |-> << >>] : r \in {"string", "malformed"}}

\* _on_mqtt_message(client, userdata, msg)
OnMqttMessage ==
    /\ pc = "mqtt_idle"
    /\ \E all_samples \in {AllSamples(mqtt_data)} :
          \E keys \in {SeriesKeys(all_samples)} :
              /\ _store' = add_batch(_store, all_samples, keys)
              /\ added' = StoreSamples(added, all_samples, keys, 1)
              /\ sqlite_rows' = sqlite_rows \o all_samples
    /\ pc' = "mqtt_handled"
    /\ UNCHANGED <<coreVars, canonVars, cycleVars, threadVars, batchVars, flowVars,
                   decodeVars, mqtt_data>>

InitIngest ==
    /\ CoreIdle
    /\ pc = "mqtt_idle"
    /\ CanonIdle
    /\ CycleIdle
    /\ ThreadIdle
    /\ BatchIdle
    /\ FlowIdle
    /\ DecodeIdle
    /\ StoreIdle
    /\ mqtt_data \in Payloads
    /\ sqlite_rows = << >>

NextIngest == OnMqttMessage

SpecIngest == InitIngest /\ [][NextIngest]_vars

(***************************************************************************)
(* Properties                                                              *)
(***************************************************************************)
Present(x) == x # NoneNum

InPct(x) == RLe(RInt(0), x) /\ RLe(x, RInt(100))

\* -------------------------------------------------------------------------
\* Section 4.6 of the specification, stated on a metrics record
\* -------------------------------------------------------------------------
NoDataTier(mm) ==
    /\ mm.comfort_samples = 0
    /\ ~Present(mm.comfort_within_band_pct)
    /\ ~Present(mm.flow_within_band_pct)

CondCold(mm) ==
    /\ Present(mm.comfort_within_band_pct) /\ Present(mm.comfort_mean_error_degF)
    /\ RLt(mm.comfort_within_band_pct, RInt(50))
    /\ RLe(mm.comfort_mean_error_degF, RInt(-3))

CondHot(mm) ==
    /\ Present(mm.comfort_within_band_pct) /\ Present(mm.comfort_mean_error_degF)
    /\ RLt(mm.comfort_within_band_pct, RInt(50))
    /\ RLe(RInt(3), mm.comfort_mean_error_degF)

CondPoorFlow(mm) ==
    Present(mm.flow_within_band_pct) /\ RLt(mm.flow_within_band_pct, RInt(40))

CondLeak(mm) ==
    Present(mm.damper_high_open_low_flow_pct)
        /\ RLt(RInt(30), mm.damper_high_open_low_flow_pct)

CondStuck(mm) ==
    Present(mm.damper_closed_high_flow_pct)
        /\ RLt(RInt(30), mm.damper_closed_high_flow_pct)

\* the reason codes of the critical conditions that hold
CriticalCodes(mm) ==
    {c \in ReasonCodes :
        \/ c = "cold_zone" /\ CondCold(mm)
        \/ c = "hot_zone" /\ CondHot(mm)
        \/ c = "poor_flow_tracking" /\ CondPoorFlow(mm)
        \/ c = "damper_leak" /\ CondLeak(mm)
        \/ c = "damper_stuck" /\ CondStuck(mm)}

CondComfortBand(mm) ==
    /\ Present(mm.comfort_within_band_pct)
    /\ RLe(RInt(50), mm.comfort_within_band_pct)
    /\ RLt(mm.comfort_within_band_pct, RInt(80))

CondFlowBand(mm) ==
    /\ Present(mm.flow_within_band_pct)
    /\ RLe(RInt(40), mm.flow_within_band_pct)
    /\ RLt(mm.flow_within_band_pct, RInt(70))

CondPossible(pct) ==
    Present(pct) /\ RLt(RInt(10), pct) /\ RLe(pct, RInt(30))

\* the reason codes of the warning conditions that hold
WarningCodes(mm) ==
    {c \in ReasonCodes :
        \/ /\ c = "slightly_cold_zone" /\ CondComfortBand(mm)
           /\ Present(mm.comfort_mean_error_degF)
           /\ RLe(mm.comfort_mean_error_degF, RInt(-2))
        \/ /\ c = "slightly_hot_zone" /\ CondComfortBand(mm)
           /\ Present(mm.comfort_mean_error_degF)
           /\ RLe(RInt(2), mm.comfort_mean_error_degF)
        \/ /\ c = "borderline_comfort" /\ CondComfortBand(mm)
           /\ \/ ~Present(mm.comfort_mean_error_degF)
              \/ /\ RLt(RInt(-2), mm.comfort_mean_error_degF)
                 /\ RLt(mm.comfort_mean_error_degF, RInt(2))
        \/ c = "borderline_flow_tracking" /\ CondFlowBand(mm)
        \/ c = "possible_damper_leak" /\ CondPossible(mm.damper_high_open_low_flow_pct)
        \/ c = "possible_damper_stuck" /\ CondPossible(mm.damper_closed_high_flow_pct)}

WeightedPresent(mm) ==
    {x \in {mm.comfort_within_band_pct, mm.flow_within_band_pct,
            mm.damper_high_open_low_flow_pct, mm.damper_closed_high_flow_pct,
            mm.reheat_waste_pct} : Present(x)}

\* -------------------------------------------------------------------------
\* C1: during one build a role slot of a ZonePair, once set, is not changed
\* by a later catalog entry; after the whole catalog is processed the slot of
\* a (station, zoneRoot, role) holds the series id of the first entry of the
\* catalog that has this zone and role.
\* -------------------------------------------------------------------------
RowKey(row) == <<row.station_key, _infer_zone_root(row.historyId)>>

RowFills(row) ==
    _infer_zone_root(row.historyId) # None /\ _infer_role(row.historyId) # NoRole

SameZoneAndRole(a, b) ==
    /\ RowFills(a) /\ RowFills(b)
    /\ RowKey(a) = RowKey(b)
    /\ _infer_role(a.historyId) = _infer_role(b.historyId)

SlotsKept ==
    \A k \in DOMAIN index : \A r \in Roles :
        (index[k].slots[r] # None /\ pos' > pos) =>
            (k \in DOMAIN index' /\ index'[k].slots[r] = index[k].slots[r])

FirstSeriesKept ==
    pos = Len(catalog) =>
        \A i \in 1..Len(catalog) : \A j \in 1..Len(catalog) :
            ( /\ i < j
              /\ SameZoneAndRole(catalog[i], catalog[j])
              /\ \A h \in 1..(i - 1) : ~SameZoneAndRole(catalog[h], catalog[i]) ) =>
                /\ RowKey(catalog[i]) \in DOMAIN index
                /\ index[RowKey(catalog[i])].slots[_infer_role(catalog[i].historyId)]
                      = catalog[i].historyId

C1_FirstWriterWins == []FirstSeriesKept /\ [][SlotsKept]_vars

C1_Witness ==
    /\ pos = Len(catalog)
    /\ \E i \in 1..Len(catalog) : \E j \in 1..Len(catalog) :
          /\ i < j
          /\ SameZoneAndRole(catalog[i], catalog[j])
          /\ catalog[i].historyId # catalog[j].historyId
          /\ index[RowKey(catalog[i])].slots[_infer_role(catalog[i].historyId)]
                = catalog[i].historyId

\* -------------------------------------------------------------------------
\* C2: with percentage inputs in [0,100], overall_score is within [0,100] when
\* present, and it is absent exactly when none of the five weighted components
\* has data.
\* -------------------------------------------------------------------------
C2_ScoreRange ==
    (pc \in {"scored", "done"} /\ \A x \in WeightedPresent(m) : InPct(x)) =>
        /\ Present(m.overall_score) => InPct(m.overall_score)
        /\ ~Present(m.overall_score) <=> WeightedPresent(m) = {}

C2_Witness ==
    /\ pc = "done"
    /\ Present(m.overall_score)
    /\ Present(m.comfort_within_band_pct)
    /\ REq(m.comfort_within_band_pct, RInt(95))
    /\ ~Present(m.flow_within_band_pct)
    /\ ~Present(m.damper_high_open_low_flow_pct)
    /\ ~Present(m.reheat_waste_pct)

\* -------------------------------------------------------------------------
\* C3: the nearest-timestamp join of the comfort, flow, damper, reheat and
\* discharge computors returns no row whose primary and secondary timestamps
\* differ by more than the tolerance, and with an empty primary or secondary
\* input it returns an empty result and does not raise.
\* -------------------------------------------------------------------------
Dist(a, b) == IF a < b THEN b - a ELSE a - b

JoinTolerance == IF pc = "discharge" THEN 60 ELSE 30

\* the value paired by a join lies within tol of the row's timestamp
PairWithin(row, tol) ==
    row.r # NaN => (row.ts_right # NaN /\ Dist(row.timestamp, row.ts_right) <= tol)

\* a paired value is the value of a row of the secondary frame at the paired time
PairFrom(row, right) ==
    row.r # NaN =>
        \E j \in 1..Len(right) :
            right[j].timestamp = row.ts_right /\ right[j].value = row.r

C3_AlignWithinTolerance ==
    pc \in {"comfort", "flow", "damper", "reheat", "discharge"} =>
        /\ ~raised
        /\ (frames.left = << >> \/ frames.right = << >>) => aligned = << >>
        /\ \A i \in 1..Len(aligned) :
              IF pc \in {"damper", "reheat"}
                 THEN /\ aligned[i].l.r # NaN
                      /\ PairWithin(aligned[i].l, JoinTolerance)
                      /\ PairFrom(aligned[i].l, frames.right)
                      /\ aligned[i].timestamp = aligned[i].l.timestamp
                      /\ PairWithin(aligned[i], JoinTolerance)
                      /\ PairFrom(aligned[i], frames.third)
                      /\ pc = "reheat" => aligned[i].r # NaN
                 ELSE /\ aligned[i].r # NaN
                      /\ PairWithin(aligned[i], JoinTolerance)
                      /\ PairFrom(aligned[i], frames.right)

\* a comfort join that keeps a row paired exactly 30 s away and drops a row
\* whose nearest setpoint is 31 s away
C3_Witness ==
    /\ pc = "comfort"
    /\ Len(frames.left) = 2
    /\ Len(aligned) = 1
    /\ Dist(aligned[1].timestamp, aligned[1].ts_right) = 30
    /\ \E i \in 1..2 : \A j \in 1..Len(frames.right) :
          Dist(frames.left[i].timestamp, frames.right[j].timestamp) = 31

C5_CriticalReasons ==
    (pc = "done" /\ ~NoDataTier(m)) =>
        /\ CriticalCodes(m) # {} =>
              (m.status = "critical" /\ Range(m.reasons) = CriticalCodes(m))
        /\ ( /\ REq(m.comfort_within_band_pct, RInt(45))
             /\ Present(m.comfort_within_band_pct)
             /\ REq(m.comfort_mean_error_degF, RInt(-4)) ) =>
              (m.status = "critical" /\ "cold_zone" \in Range(m.reasons))

C5_Witness ==
    /\ pc = "done"
    /\ REq(m.comfort_within_band_pct, RInt(45))
    /\ Present(m.comfort_within_band_pct)
    /\ REq(m.comfort_mean_error_degF, RInt(-4))
    /\ CondStuck(m)
    /\ CondPossible(m.damper_high_open_low_flow_pct)
    /\ m.reasons = <<"cold_zone", "damper_stuck">>

\* -------------------------------------------------------------------------
\* C6: outside the no_data and critical tiers every warning condition that
\* holds makes the status warning and puts its reason code in reasons; the
\* comfort band [50,80) gives exactly one of its three codes; flow 55% with
\* comfort 90% gives warning with borderline_flow_tracking.
\* -------------------------------------------------------------------------
ComfortWarningCodes == {"slightly_cold_zone", "slightly_hot_zone", "borderline_comfort"}

C6_WarningReasons ==
    (pc = "done" /\ ~NoDataTier(m) /\ CriticalCodes(m) = {}) =>
        /\ WarningCodes(m) # {} =>
              (m.status = "warning" /\ Range(m.reasons) = WarningCodes(m))
        /\ CondComfortBand(m) =>
              Cardinality(Range(m.reasons) \cap ComfortWarningCodes) = 1
        /\ ( /\ Present(m.flow_within_band_pct)
             /\ REq(m.flow_within_band_pct, RInt(55))
             /\ Present(m.comfort_within_band_pct)
             /\ REq(m.comfort_within_band_pct, RInt(90)) ) =>
              (m.status = "warning" /\ "borderline_flow_tracking" \in Range(m.reasons))

C6_Witness ==
    /\ pc = "done"
    /\ m.status = "warning"
    /\ Present(m.flow_within_band_pct)
    /\ REq(m.flow_within_band_pct, RInt(55))
    /\ Present(m.comfort_within_band_pct)
    /\ REq(m.comfort_within_band_pct, RInt(90))
    /\ m.reasons = <<"borderline_flow_tracking">>

\* -------------------------------------------------------------------------
\* C7: the reasons list is sorted ascending without duplicates, and it is
\* empty whenever the status is no_data or ok.
\* -------------------------------------------------------------------------
C7_ReasonsSorted ==
    pc = "done" =>
        /\ \A i \in 1..Len(m.reasons) : \A j \in 1..Len(m.reasons) :
              i < j => ReasonRank(m.reasons[i]) < ReasonRank(m.reasons[j])
        /\ m.status \in {"no_data", "ok"} => m.reasons = << >>

C7_Witness ==
    /\ pc = "done"
    /\ m.status = "critical"
    /\ m.reasons = <<"damper_leak", "hot_zone", "poor_flow_tracking">>

\* -------------------------------------------------------------------------
\* C8: when every input series of compute_zone_health is empty or its role
\* slot is unset the call does not raise, every metric block is in its
\* no-data form, status is no_data, reasons is empty and overall_score absent.
\* -------------------------------------------------------------------------
AllInputsEmpty ==
    \A r \in HealthRoles : zone_info[r] = None \/ store[r] = << >>

C8_NoDataOnEmptyInputs ==
    (pc \in {"start", "queried", "comfort_done", "flow_done", "metrics", "scored", "done"}
        /\ AllInputsEmpty) =>
        /\ ~raised
        /\ m.comfort_samples = 0 /\ ~Present(m.comfort_within_band_pct)
        /\ ~Present(m.comfort_mean_error_degF)
        /\ m.flow_samples = 0 /\ ~Present(m.flow_within_band_pct)
        /\ ~Present(m.mean_flow_error_cfm)
        /\ ~Present(m.damper_high_open_low_flow_pct)
        /\ ~Present(m.damper_closed_high_flow_pct)
        /\ ~Present(m.reheat_waste_pct)
        /\ ~Present(m.overall_score)
        /\ m.status = "no_data"
        /\ m.reasons = << >>

\* a finished call whose slots are partly unset and partly point at empty series
C8_Witness ==
    /\ pc = "done"
    /\ AllInputsEmpty
    /\ zone_info["space_temp"] # None
    /\ zone_info["flow"] = None
    /\ m.status = "no_data"

\* -------------------------------------------------------------------------
\* C9: overall_score is the weighted mean of exactly the present terms:
\* comfort x3, flow x2, and 100 minus each damper percentage and the reheat
\* waste percentage x1 each; comfort 95 and flow 95 alone give 95 and ok.
\* -------------------------------------------------------------------------
Term(x, w, inverse) ==
    IF Present(x) THEN RMulInt(IF inverse THEN RSub(RInt(100), x) ELSE x, w)
                  ELSE RInt(0)

Weight(x, w) == IF Present(x) THEN w ELSE 0

WeightedMeanNum(mm) ==
    RAdd(Term(mm.comfort_within_band_pct, 3, FALSE),
    RAdd(Term(mm.flow_within_band_pct, 2, FALSE),
    RAdd(Term(mm.damper_high_open_low_flow_pct, 1, TRUE),
    RAdd(Term(mm.damper_closed_high_flow_pct, 1, TRUE),
         Term(mm.reheat_waste_pct, 1, TRUE)))))

WeightedMeanDen(mm) ==
    Weight(mm.comfort_within_band_pct, 3) + Weight(mm.flow_within_band_pct, 2)
        + Weight(mm.damper_high_open_low_flow_pct, 1)
        + Weight(mm.damper_closed_high_flow_pct, 1)
        + Weight(mm.reheat_waste_pct, 1)

OnlyComfortAndFlow95(mm) ==
    /\ Present(mm.comfort_within_band_pct) /\ REq(mm.comfort_within_band_pct, RInt(95))
    /\ Present(mm.flow_within_band_pct) /\ REq(mm.flow_within_band_pct, RInt(95))
    /\ ~Present(mm.damper_high_open_low_flow_pct)
    /\ ~Present(mm.damper_closed_high_flow_pct)
    /\ ~Present(mm.reheat_waste_pct)

C9_WeightedMean ==
    pc = "done" =>
        /\ Present(m.overall_score) =>
              REq(RMulInt(m.overall_score, WeightedMeanDen(m)), WeightedMeanNum(m))
        /\ OnlyComfortAndFlow95(m) =>
              ( /\ Present(m.overall_score)
                /\ REq(m.overall_score, RInt(95))
                /\ m.status = "ok" )

C9_Witness ==
    /\ pc = "done"
    /\ OnlyComfortAndFlow95(m)
    /\ Present(m.overall_score)

\* -------------------------------------------------------------------------
\* C10: infer_role returns the role of the matching rule with the lowest
\* priority number, the earliest such rule of the list when several share it,
\* and none when no rule matches.
\* -------------------------------------------------------------------------
LoadedRules == rules_cache[1]

MatchingRules ==
    {i \in 1..Len(LoadedRules) : Matches(LoadedRules[i], point.label, point.tags)}

C10_LowestPriorityWins ==
    pc = "inferred" =>
        /\ rules_cache # NotLoaded
        /\ inferred = NoRole <=> MatchingRules = {}
        /\ MatchingRules # {} =>
              \E i \in MatchingRules :
                  /\ inferred = LoadedRules[i].role
                  /\ \A j \in MatchingRules :
                        \/ LoadedRules[i].priority < LoadedRules[j].priority
                        \/ /\ LoadedRules[i].priority = LoadedRules[j].priority
                           /\ i <= j

\* rules of priority 10 and 4 both match, in that order: the priority-4 role wins
C10_Witness ==
    /\ pc = "inferred"
    /\ Len(LoadedRules) = 3
    /\ {1, 2, 3} \subseteq MatchingRules
    /\ LoadedRules[1].priority = 10
    /\ LoadedRules[2].priority = 4
    /\ LoadedRules[3].priority = 4
    /\ LoadedRules[2].role # LoadedRules[3].role
    /\ inferred = LoadedRules[2].role

\* a key holds only lowercase alphanumerics and single "_" separators, none of
\* them at its start or its end
LowercaseAlnum(ch) == IsAlnum(ch) /\ LowerCh(ch) = ch

WellFormedKey(k) ==
    /\ \A i \in 1..Len(k) : LowercaseAlnum(k[i]) \/ k[i] = "_"
    /\ k # << >> => k[1] # "_" /\ k[Len(k)] # "_"
    /\ \A i \in 1..(Len(k) - 1) : ~(k[i] = "_" /\ k[i + 1] = "_")

\* C11: niagara_canonical_name applied to its own result returns that result, and
\* every result holds only lowercase alphanumerics and single separators, with no
\* separator at its start or end and no two separators in a row.
C11_CanonicalIdempotent ==
    /\ pc \in {"canon_once", "canon_twice"} => WellFormedKey(canon_key)
    /\ pc = "canon_twice" => canon_rekey = canon_key /\ WellFormedKey(canon_rekey)

\* a name with an escape, an upper-case letter and a run of separators was
\* canonicalised twice
C11_Witness ==
    /\ pc = "canon_twice"
    /\ canon_name = <<"B", "_", "-", "a">>
    /\ canon_key = <<"b", "_", "a">>
    /\ canon_rekey = canon_key

\* the first sample of the ON period that sample j - 1 belongs to
OnPeriodStart(df, j) ==
    CHOOSE k \in 1..(j - 1) :
        /\ \A q \in k..(j - 1) : IsOn(df[q])
        /\ k = 1 \/ ~IsOn(df[k - 1])

\* the samples j that close an ON period shorter than min_cycle_minutes
ShortClosures(df) ==
    {j \in 2..Len(df) :
        /\ IsOn(df[j - 1])
        /\ ~IsOn(df[j])
        /\ (df[j].timestamp - df[OnPeriodStart(df, j)].timestamp) < min_cycle_minutes * 60}

\* C12: the walk counts a short cycle exactly once for each ON period closed by an
\* ON->OFF transition whose duration, first ON sample to first following OFF
\* sample, is strictly below min_cycle_minutes; a period of exactly
\* min_cycle_minutes, and a period still open at the last sample, is not counted.
C12_ShortCycles ==
    pc = "cycles_done" /\ cyc_df # << >>
        => walk.short_cycles = Cardinality(ShortClosures(SortValues(cyc_df)))

\* an ON period of exactly ten minutes seeded by the first sample, then one of
\* 599 seconds: only the second is counted
C12_Witness ==
    /\ pc = "cycles_done"
    /\ cyc_df = << [timestamp |-> 0, value |-> 1], [timestamp |-> 600, value |-> 0],
                   [timestamp |-> 601, value |-> 1], [timestamp |-> 1200, value |-> 0] >>
    /\ walk.short_cycles = 1

\* the rows of the joined frame that the computor's window test keeps
OccupiedRows == Occupied(aligned, comfort_cfg)

\* |temperature - setpoint| <= band, for a row of the comfort join
WithinComfortBand(row) ==
    /\ row.l.value - row.r <= comfort_cfg.comfort_band_degF
    /\ row.r - row.l.value <= comfort_cfg.comfort_band_degF

\* C13: the comfort computor's sample count is the number of occupied rows, and
\* its within-band percentage is 100 times the number of occupied rows with
\* |temperature - setpoint| <= band (the boundary included) over that count.
C13_ComfortBand ==
    pc \in {"comfort_computed", "debug_comfort_computed"} =>
        /\ m.comfort_samples = Len(OccupiedRows)
        /\ OccupiedRows # << >> =>
              /\ Present(m.comfort_within_band_pct)
              /\ REq(m.comfort_within_band_pct,
                     R(100 * Cardinality({i \in 1..Len(OccupiedRows) :
                                            WithinComfortBand(OccupiedRows[i])}),
                       Len(OccupiedRows)))

\* two occupied rows, one with an error of exactly the band and one beyond it:
\* 50 percent within band
C13_Witness ==
    /\ pc = "comfort_computed"
    /\ Len(OccupiedRows) = 2
    /\ OccupiedRows[1].l.value = 68
    /\ OccupiedRows[2].l.value = 73
    /\ m.comfort_samples = 2
    /\ REq(m.comfort_within_band_pct, RInt(50))

\* C14: however the threads' first calls of get_rules interleave, the body of
\* get_rules is executed at most once, and every call returns the rule list the
\* cache holds.
C14_LoadAtMostOnce ==
    /\ load_count <= 1
    /\ \A t \in Threads : thread_rules[t] # NotLoaded => thread_rules[t] = rules_cache

\* C15: whatever config/role_rules.json holds, and also when it is missing, no
\* call of get_rules or infer_role raises; a file that is missing or cannot be
\* loaded is replaced by the built-in default rule set.
C15_BadSourceFallsBack ==
    /\ ~raised
    /\ rule_source.file \in {"missing", "malformed"} /\ rules_cache # NotLoaded
          => rules_cache[1] = _default_rules

\* a rule that tests tags (tags_all or tags_any is given)
TagBased(rule) == rule.tags_all # {} \/ rule.tags_any # {}

\* a rule that tests the label only
LabelPattern(rule) == rule.name_regex # << >> /\ ~TagBased(rule)

\* the positions of the rules of each kind that match the point
MatchingTagRules(rules, p) ==
    {i \in 1..Len(rules) : TagBased(rules[i]) /\ Matches(rules[i], p.label, p.tags)}

MatchingLabelRules(rules, p) ==
    {i \in 1..Len(rules) : LabelPattern(rules[i]) /\ Matches(rules[i], p.label, p.tags)}

\* infer_role has returned and the rules it used are the built-in defaults
InferredOnDefaults ==
    /\ pc = "inferred"
    /\ rule_source.file \in {"missing", "malformed"}
    /\ rules_cache = <<_default_rules>>

\* when both a tag-based and a label-pattern rule match, the role returned is
\* that of a matching tag-based rule
TagRuleOutranksLabelRule ==
    LET rules == rules_cache[1]
    IN (MatchingTagRules(rules, point) # {} /\ MatchingLabelRules(rules, point) # {})
          => \E i \in MatchingTagRules(rules, point) : inferred = rules[i].role

\* C16 as stated: in the built-in default rule set every role has both a
\* tag-based rule with priority <= 6 and a label-pattern rule with priority 10,
\* and when a tag-based and a label-pattern rule both match the same point,
\* infer_role returns the role of the tag-based rule
C16_EveryRoleTagAndLabelRule ==
    InferredOnDefaults =>
        LET rules == rules_cache[1]
        IN /\ \A i \in 1..Len(rules) :
                /\ \E j \in 1..Len(rules) : /\ rules[j].role = rules[i].role
                                            /\ TagBased(rules[j])
                                            /\ rules[j].priority <= 6
                /\ \E j \in 1..Len(rules) : /\ rules[j].role = rules[i].role
                                            /\ LabelPattern(rules[j])
                                            /\ rules[j].priority = 10
           /\ TagRuleOutranksLabelRule

\* C16 amended: in the built-in default rule set every role has a
\* label-pattern rule with priority 10 and every tag-based rule has priority
\* <= 6 (not every role has a tag-based rule), and when a tag-based and a
\* label-pattern rule both match the same point, infer_role returns the role
\* of a matching tag-based rule
C16_TagRulesOutrankLabelRules ==
    InferredOnDefaults =>
        LET rules == rules_cache[1]
        IN /\ \A i \in 1..Len(rules) :
                /\ TagBased(rules[i]) => rules[i].priority <= 6
                /\ \E j \in 1..Len(rules) : /\ rules[j].role = rules[i].role
                                            /\ LabelPattern(rules[j])
                                            /\ rules[j].priority = 10
           /\ TagRuleOutranksLabelRule

\* the tag-based flow rule and the label rule for "supply fan speed", both of
\* priority 6, match the same point, and the tag-based rule's role is returned
C16_Witness ==
    /\ InferredOnDefaults
    /\ point.label = <<"supply", " ", "fan", " ", "speed">>
    /\ point.tags = {"air", "flow", "zone"}
    /\ MatchingLabelRules(rules_cache[1], point) # {}
    /\ inferred = "flow"

\* the station of the request has at least one zone in the index
StationHasZones ==
    \E key \in DOMAIN build_zone_pair_index(catalog, << >>) : key[1] = request.station

\* out is rs reordered by (status tier, score ascending, absent last), elements
\* equal on both keys in the order they have in rs
IsStablySorted(out, rs) ==
    /\ Len(out) = Len(rs)
    /\ \E perm \in [1..Len(rs) -> 1..Len(rs)] :
          /\ \A i, j \in 1..Len(rs) : i # j => perm[i] # perm[j]
          /\ \A i \in 1..Len(rs) : out[i] = rs[perm[i]]
          /\ \A i, j \in 1..Len(rs) :
                i < j => /\ SortKeyLe(out[i], out[j])
                         /\ (SortKeyLe(out[j], out[i]) => perm[i] < perm[j])

\* C17: the station batch operation returns the zone results ordered by status
\* tier (critical, warning, ok, no_data), then by overall score ascending with
\* absent scores last, results equal on both keys in computation order
C17_BatchSortedWorstFirst ==
    (pc \in {"batch_returned", "batch_raised", "batch_404"} /\ StationHasZones)
        => /\ pc = "batch_returned"
           /\ IsStablySorted(response, results)

\* the catalog entries the build loop has consumed
ProcessedRows == {catalog[i] : i \in 1..pos}

\* the station of a catalog entry, under either key
EntryStation(row) == IF row.station # "" THEN row.station ELSE row.station_key

HasStationAndEquipment(row) == EntryStation(row) # "" /\ row.equipment # None

\* (station, canonicalKey(equipment)) of an entry
EquipmentKey(row) == <<EntryStation(row), niagara_canonical_name(row.equipment)>>

\* C18: buildIndex skips every catalog entry that lacks a station or an
\* equipment label and keys every other entry by (station,
\* canonicalKey(equipment)), one ZonePair per key; an entry for which no role
\* is inferred leaves the slots untouched, so every filled slot holds the
\* series id of an entry with that role
C18_KeyedByStationAndEquipment ==
    /\ DOMAIN index = {EquipmentKey(row) : row \in {r \in ProcessedRows : HasStationAndEquipment(r)}}
    /\ \A key \in DOMAIN index : \A role \in Roles :
          index[key].slots[role] # None
             => \E row \in ProcessedRows : /\ row.historyId = index[key].slots[role]
                                           /\ _infer_role(row.historyId) = role

\* the UTC offset of the station clock that stamped a row of the joined frame
RowUtcOffset(row) ==
    IF pc = "reheat_computed" THEN row.l.l.utcoffset ELSE row.l.utcoffset

\* the local wall-clock time of day of a row, in seconds since midnight
LocalTimeOfDay(row) == (row.timestamp + RowUtcOffset(row)) % 86400

\* the rows of the joined frame whose local wall-clock time of day lies in
\* [occupied_start, occupied_end], both ends included
LocalOccupiedRows ==
    SelectSeq(aligned, LAMBDA row :
        /\ LocalTimeOfDay(row) >= _parse_time(comfort_cfg.occupied_start)
        /\ LocalTimeOfDay(row) <= _parse_time(comfort_cfg.occupied_end))

\* C19: the occupied-window test of the comfort and reheat-waste computors
\* keeps a row if and only if the local wall-clock time of day of the sample,
\* ignoring its date, lies in [occupiedStart, occupiedEnd], both ends included
C19_LocalClockWindow ==
    /\ pc \in {"comfort_computed", "reheat_computed", "debug_comfort_computed"}
          => Occupied(aligned, comfort_cfg) = LocalOccupiedRows
    /\ pc \in {"comfort_computed", "debug_comfort_computed"}
          => m.comfort_samples = Len(LocalOccupiedRows)

\* the rows of the reheat join that the computor's window test keeps
OccupiedReheatRows == Occupied(aligned, comfort_cfg)

\* reheat output above the 10 percent "on" threshold, for a row of the reheat join
ReheatOn(row) == row.l.l.value > 10

\* reheat on while the temperature is at or above setpoint + 1 degF
FlaggedRow(row) == ReheatOn(row) /\ row.l.r >= row.r + 1

\* reheat on while the temperature is above setpoint + 1 degF
FlaggedRowAbove(row) == ReheatOn(row) /\ row.l.r > row.r + 1

\* the positions of the rows of rows that satisfy Test
RowsWhere(Test(_), rows) == {i \in 1..Len(rows) : Test(rows[i])}

HighOpenRow(row) == row.l.l.value >= 80

ClosedRow(row) == row.l.l.value <= 5

\* low / high flow of a row that has a flow setpoint
LowFlowRow(row) == row.r # NaN /\ 2 * row.l.r < row.r

HighFlowRow(row) == row.r # NaN /\ 5 * row.l.r > 4 * row.r

\* the aligned (damper, flow) rows that have a flow setpoint aligned
RowsWithSetpoint == SelectSeq(aligned, LAMBDA row : row.r # NaN)

\* the largest flow of the aligned rows
MaxAlignedFlow ==
    CHOOSE x \in {aligned[i].l.r : i \in 1..Len(aligned)} :
        \A i \in 1..Len(aligned) : aligned[i].l.r <= x

\* without any flow setpoint the classes are taken relative to the largest
\* flow (low: below 30 percent of it, high: above 70 percent) and both
\* percentages are over all aligned rows
DamperPctsWithoutSetpoint ==
    (pc = "damper_computed" /\ aligned # << >> /\ RowsWithSetpoint = << >>) =>
        /\ Present(m.damper_high_open_low_flow_pct)
        /\ REq(m.damper_high_open_low_flow_pct,
               R(100 * Count(LAMBDA row : /\ HighOpenRow(row)
                                          /\ 10 * row.l.r < 3 * MaxAlignedFlow, aligned),
                 Len(aligned)))
        /\ Present(m.damper_closed_high_flow_pct)
        /\ REq(m.damper_closed_high_flow_pct,
               R(100 * Count(LAMBDA row : /\ ClosedRow(row)
                                          /\ 10 * row.l.r > 7 * MaxAlignedFlow, aligned),
                 Len(aligned)))

\* C21 as stated: each damper-sanity percentage is the count of rows of its
\* class divided by the number of aligned (damper, flow) rows, whether or not a
\* flow setpoint was aligned to every row
C21_DamperPctsOverAlignedRows ==
    /\ DamperPctsWithoutSetpoint
    /\ (pc = "damper_computed" /\ RowsWithSetpoint # << >>) =>
        /\ Present(m.damper_high_open_low_flow_pct)
        /\ REq(m.damper_high_open_low_flow_pct,
               R(100 * Count(LAMBDA row : HighOpenRow(row) /\ LowFlowRow(row), aligned),
                 Len(aligned)))
        /\ Present(m.damper_closed_high_flow_pct)
        /\ REq(m.damper_closed_high_flow_pct,
               R(100 * Count(LAMBDA row : ClosedRow(row) /\ HighFlowRow(row), aligned),
                 Len(aligned)))

\* C21 amended: each damper-sanity percentage is the count of rows of its
\* class divided by the number of aligned (damper, flow) rows that have a flow
\* setpoint aligned, or by the number of all aligned rows when no row has one
C21_DamperPctsOverSetpointRows ==
    /\ DamperPctsWithoutSetpoint
    /\ (pc = "damper_computed" /\ RowsWithSetpoint # << >>) =>
        /\ Present(m.damper_high_open_low_flow_pct)
        /\ REq(m.damper_high_open_low_flow_pct,
               R(100 * Count(LAMBDA row : HighOpenRow(row) /\ LowFlowRow(row), aligned),
                 Len(RowsWithSetpoint)))
        /\ Present(m.damper_closed_high_flow_pct)
        /\ REq(m.damper_closed_high_flow_pct,
               R(100 * Count(LAMBDA row : ClosedRow(row) /\ HighFlowRow(row), aligned),
                 Len(RowsWithSetpoint)))

\* two aligned rows, a setpoint on the first only, which is closed with high
\* flow: 100 percent of the one row with a setpoint
C21_Witness ==
    /\ pc = "damper_computed"
    /\ Len(aligned) = 2
    /\ Len(RowsWithSetpoint) = 1
    /\ ClosedRow(aligned[1]) /\ HighFlowRow(aligned[1])
    /\ REq(m.damper_closed_high_flow_pct, RInt(100))
    /\ REq(m.damper_high_open_low_flow_pct, RInt(0))

\* |flow - setpoint| of a row of the (flow, setpoint) join
AbsFlowError(row) == Abs(row.l.value - row.r)

\* pctTolerance * |setpoint|
PctTolerance(row) == R(Abs(row.r) * flow_cfg.pct_tolerance.n, flow_cfg.pct_tolerance.d)

\* the tolerance of a row: the larger of the absolute tolerance and
\* pctTolerance * |setpoint| when an absolute tolerance is configured
RowTolerance(row) ==
    IF flow_cfg.abs_cfm_tolerance = NaN THEN PctTolerance(row)
    ELSE IF RLe(PctTolerance(row), RInt(flow_cfg.abs_cfm_tolerance))
            THEN RInt(flow_cfg.abs_cfm_tolerance)
            ELSE PctTolerance(row)

\* the sum of |flow - setpoint| / |setpoint| over rows, all with a non-zero setpoint
RECURSIVE SumAbsErrorPct(_)
SumAbsErrorPct(rows) ==
    IF rows = << >> THEN RInt(0)
    ELSE RAdd(R(AbsFlowError(rows[1]), Abs(rows[1].r)), SumAbsErrorPct(Tail(rows)))

\* the aligned rows whose setpoint is not zero
NonZeroSetpointRows == SelectSeq(aligned, LAMBDA row : row.r # 0)

\* C22: flow tracking counts a row as within band iff |flow - setpoint| <= tol,
\* tol being max(absoluteTolerance, pctTolerance * |setpoint|) when an absolute
\* tolerance is configured and pctTolerance * |setpoint| otherwise; the rows
\* with a zero setpoint are left out of the mean percentage error but count in
\* the sample total
C22_FlowWithinBand ==
    (pc = "flow_tracked" /\ aligned # << >>) =>
        /\ flow_metrics.samples = Len(aligned)
        /\ Present(flow_metrics.within_band_pct)
        /\ REq(flow_metrics.within_band_pct,
               R(100 * Count(LAMBDA row : RLe(RInt(AbsFlowError(row)), RowTolerance(row)),
                             aligned),
                 Len(aligned)))
        /\ Present(flow_metrics.mean_error_pct) <=> NonZeroSetpointRows # << >>
        /\ NonZeroSetpointRows # << >> =>
              REq(flow_metrics.mean_error_pct,
                  RMulInt(RDivInt(SumAbsErrorPct(NonZeroSetpointRows),
                                  Len(NonZeroSetpointRows)), 100))

\* absolute tolerance 2 against 10 percent of 10: a row 2 cfm off is within
\* band, and a row with setpoint 0 counts as a sample but not in the mean
\* percentage error (20 percent, from the first row alone)
C22_Witness ==
    /\ pc = "flow_tracked"
    /\ flow_cfg.abs_cfm_tolerance = 2
    /\ Len(aligned) = 2
    /\ aligned[1].l.value = 8 /\ aligned[1].r = 10
    /\ aligned[2].l.value = 0 /\ aligned[2].r = 0
    /\ flow_metrics.samples = 2
    /\ REq(flow_metrics.within_band_pct, RInt(100))
    /\ REq(flow_metrics.mean_error_pct, RInt(20))

\* a FlowTrackingConfig with a tolerance below zero
OutOfRange(cfg) ==
    \/ cfg.pct_tolerance.n < 0
    \/ (cfg.abs_cfm_tolerance # NaN /\ cfg.abs_cfm_tolerance < 0)
    \/ cfg.merge_tolerance_seconds < 0

\* C24: a configuration value out of its range (a negative alignment or flow
\* tolerance) makes the operation fail with an error; it is never used to
\* compute a metric result (stated for the calls whose frames are not empty,
\* where the tolerance is reached)
C24_OutOfRangeConfigFails ==
    (/\ pc \in {"flow_tracked", "flow_raised"}
     /\ frames.flow # << >> /\ frames.flow_sp # << >>
     /\ OutOfRange(flow_cfg)) =>
        /\ pc = "flow_raised"
        /\ raised
        /\ flow_metrics = << >>

\* -------------------------------------------------------------------------
\* niagara_decode_name is idempotent
\* -------------------------------------------------------------------------
\* the label holds one of the two escapes niagara_decode_name replaces
HasEscape(s) ==
    \E i \in 1..(Len(s) - 2) :
        /\ s[i] = "$"
        /\ s[i + 1] = "2"
        /\ s[i + 2] \in {"0", "d"}

\* C23: decode is idempotent: for every raw label x, decoding the decoded
\* label gives the decoded label again, decode(decode(x)) = decode(x).
C23_DecodeIdempotent ==
    pc = "redecoded" => redecoded = decoded

\* an escape next to a blank: the first call decodes, collapses and strips,
\* and the second call is applied to its result
C23_Witness ==
    /\ pc = "redecoded"
    /\ raw_label = <<"$", "2", "0", " ", "a">>
    /\ HasEscape(raw_label)
    /\ decoded = <<"a">>
    /\ redecoded = <<"a">>

\* -------------------------------------------------------------------------
\* history_store: the cap and the one-sample-per-timestamp rule
\* -------------------------------------------------------------------------
\* the n latest of a set of timestamps
Latest(S, n) == {ts \in S : Cardinality({u \in S : u > ts}) < n}

\* the series holds no more samples than the cap
WithinCap(key) == Cardinality(DOMAIN _store[key]) <= _MAX_PER_SERIES

\* every sample held is filed under its own timestamp and series, and is the
\* last one handed to add_batch for that timestamp
HoldsLastAdded(key) ==
    \A ts \in DOMAIN _store[key] :
        /\ _store[key][ts].timestamp = ts
        /\ SeriesKey(_store[key][ts]) = key
        /\ _store[key][ts] = added[key][ts]

\* of the timestamps ever added, the series holds the latest: whatever was
\* dropped is older than everything kept
DroppedAreOldest(key) == DOMAIN _store[key] = Latest(DOMAIN added[key], _MAX_PER_SERIES)

\* C27: after any sequence of add_batch calls every (station, history)
\* series of the in-memory store holds at most _MAX_PER_SERIES samples and
\* at most one per timestamp, the last one added for it; and the samples a
\* batch pushed out over the cap are those with the oldest timestamps.
C27_SeriesCappedLatestKept ==
    /\ DOMAIN _store = DOMAIN added
    /\ \A key \in DOMAIN _store :
          /\ WithinCap(key)
          /\ HoldsLastAdded(key)
          /\ DroppedAreOldest(key)

\* a series that went over the cap: three timestamps were added under the
\* two spellings of one station, the oldest is gone, and a kept timestamp
\* holds the sample of the second spelling
C27_Witness ==
    /\ pc = "store_ready"
    /\ \E key \in DOMAIN _store :
          /\ Cardinality(DOMAIN added[key]) > _MAX_PER_SERIES
          /\ Cardinality(DOMAIN _store[key]) = _MAX_PER_SERIES
          /\ 1 \in DOMAIN added[key]
          /\ 1 \notin DOMAIN _store[key]
          /\ \E ts \in DOMAIN _store[key] : _store[key][ts].station_name # key[1]

\* -------------------------------------------------------------------------
\* mqtt_history_ingest: a bad row is dropped on its own
\* -------------------------------------------------------------------------
\* the row has a timestamp that parses and a value that is a number
WellFormedRow(row) ==
    /\ row.json = "object"
    /\ ~ParseTimestampRaises(row.timestamp)
    /\ FloatOf(row.value).raises = "no"

\* the samples of the well-formed rows of a frame from row i on
RECURSIVE WellFormedSamples(_, _)
WellFormedSamples(frame, i) ==
    IF i > Len(frame.historyData) THEN << >>
    ELSE (IF WellFormedRow(frame.historyData[i])
             THEN <<SampleOfRow(frame, frame.historyData[i])>> ELSE << >>)
             \o WellFormedSamples(frame, i + 1)

\* the frame passes _validate_history_frame
ValidFrame(frame) == frame.json = "object" /\ ~ValidateRaises(frame)

\* the samples of the well-formed rows of the valid frames from frame idx on
RECURSIVE SamplesDue(_, _)
SamplesDue(items, idx) ==
    IF idx > Len(items) THEN << >>
    ELSE (IF ValidFrame(items[idx]) THEN WellFormedSamples(items[idx], 1) ELSE << >>)
             \o SamplesDue(items, idx + 1)

\* every row of every frame of the message is a JSON object
AllRowsObjects(data) ==
    \A idx \in 1..Len(data.items) :
        \A i \in 1..Len(data.items[idx].historyData) :
            data.items[idx].historyData[i].json = "object"

\* C25: when a history frame is decoded, a row whose timestamp or value is
\* missing or cannot be parsed is dropped on its own: every other row of the
\* frame still yields its sample, and an invalid frame of a multi-frame
\* message does not keep the samples of the other frames from being stored.
C25_BadRowDroppedAlone ==
    (pc = "mqtt_handled" /\ mqtt_data.root \in {"list", "object"} /\ AllRowsObjects(mqtt_data))
        => sqlite_rows = SamplesDue(mqtt_data.items, 1)

\* -------------------------------------------------------------------------
\* no_data and the metrics computed beside it
\* -------------------------------------------------------------------------
\* C29 as claimed: whenever compute_zone_health returns status no_data,
\* overall_score is absent and both damper anomaly percentages are absent.
C29_NoDataHidesNothing ==
    (pc = "done" /\ m.status = "no_data") =>
        /\ ~Present(m.overall_score)
        /\ ~Present(m.damper_high_open_low_flow_pct)
        /\ ~Present(m.damper_closed_high_flow_pct)

\* C29: whenever compute_zone_health returns status no_data, overall_score
\* is absent if and only if both damper anomaly percentages and the reheat
\* waste percentage are absent.
C29_NoDataScoreAbsentIffNoTerm ==
    (pc = "done" /\ m.status = "no_data") =>
        (~Present(m.overall_score) <=>
            /\ ~Present(m.damper_high_open_low_flow_pct)
            /\ ~Present(m.damper_closed_high_flow_pct)
            /\ ~Present(m.reheat_waste_pct))

\* flow and damper rows without a flow setpoint or comfort data: every
\* aligned row is closed with high flow, the score is 50, the status no_data
C29_Witness ==
    /\ pc = "done"
    /\ m.status = "no_data"
    /\ store.flow # << >>
    /\ store.damper # << >>
    /\ Present(m.damper_closed_high_flow_pct)
    /\ REq(m.damper_closed_high_flow_pct, RInt(100))
    /\ Present(m.overall_score)
    /\ REq(m.overall_score, RInt(50))

\* -------------------------------------------------------------------------
\* reheat waste and the classification
\* -------------------------------------------------------------------------
\* the record with another reheat waste percentage
WithReheat(mm, r) == [mm EXCEPT !.reheat_waste_pct = r]

\* C26: reheat_waste_pct never influences the classification: the record
\* with any other reheat waste percentage gets the same status and the same
\* reasons; reheat waste contributes to overall_score only, as the term
\* 100 - reheat_waste_pct of weight 1 beside the other terms.
C26_ReheatScoringOnly ==
    pc = "done" =>
        /\ \A r \in ReheatPcts :
              /\ _derive_status_and_reasons(WithReheat(m, r)).status = m.status
              /\ _derive_status_and_reasons(WithReheat(m, r)).reasons = m.reasons
        /\ Present(m.reheat_waste_pct) =>
              /\ Present(m.overall_score)
              /\ REq(RMulInt(m.overall_score, WeightedMeanDen(WithReheat(m, NoneNum)) + 1),
                     RAdd(WeightedMeanNum(WithReheat(m, NoneNum)),
                          RSub(RInt(100), m.reheat_waste_pct)))

\* every occupied row wastes reheat, the zone is ok and the score shows it
C26_Witness ==
    /\ pc = "done"
    /\ Present(m.reheat_waste_pct)
    /\ REq(m.reheat_waste_pct, RInt(100))
    /\ m.status = "ok"
    /\ m.reasons = << >>
    /\ Present(m.overall_score)
    /\ RLt(m.overall_score, RInt(95))

\* -------------------------------------------------------------------------
\* reasons and the status
\* -------------------------------------------------------------------------
\* C28: after the status classifier has run, reasons is non-empty if and
\* only if the status is critical or warning: every critical or warning
\* result carries at least one reason code.
C28_ReasonsIffCriticalOrWarning ==
    pc = "done" => (m.reasons # << >> <=> m.status \in {"critical", "warning"})

\* a warning whose one reason is borderline_comfort
C28_Witness ==
    /\ pc = "done"
    /\ m.status = "warning"
    /\ m.reasons = <<"borderline_comfort">>

\* -------------------------------------------------------------------------
\* comfort below 50 percent
\* -------------------------------------------------------------------------
\* comfort-within-band is present and below 50
ComfortBelow50(mm) ==
    Present(mm.comfort_within_band_pct) /\ RLt(mm.comfort_within_band_pct, RInt(50))

\* C30 as claimed: a zone whose comfort-within-band percentage is present
\* and below 50 is never classified ok, whatever its mean error is.
C30_LowComfortNeverOk ==
    (pc = "done" /\ ComfortBelow50(m)) => m.status # "ok"

\* C30: a zone whose comfort-within-band percentage is present and below 50
\* is never classified ok when its mean error is at most -3 or at least +3.
C30_LowComfortLargeErrorNeverOk ==
    ( /\ pc = "done"
      /\ ComfortBelow50(m)
      /\ Present(m.comfort_mean_error_degF)
      /\ \/ RLe(m.comfort_mean_error_degF, RInt(-3))
         \/ RLe(RInt(3), m.comfort_mean_error_degF) )
        => m.status # "ok"

\* no comfort at all with a mean error of exactly +3, flow in band
C30_Witness ==
    /\ pc = "done"
    /\ Present(m.comfort_within_band_pct)
    /\ REq(m.comfort_within_band_pct, RInt(0))
    /\ REq(m.comfort_mean_error_degF, RInt(3))
    /\ Present(m.flow_within_band_pct)
    /\ REq(m.flow_within_band_pct, RInt(95))
    /\ ~Present(m.damper_closed_high_flow_pct)
    /\ m.status = "critical"
    /\ m.reasons = <<"hot_zone">>

=============================================================================
